---- MODULE Spec2Model ----
(***************************************************************************)
(* A model of the greentype analyzer (src/greentype/core.py): the five     *)
(* indexes, module loading, name resolution through imports, transitive    *)
(* base resolution and the class suggestion engine.                        *)
(*                                                                         *)
(* Qualified names and paths are TLA+ strings handled character by         *)
(* character (Len, SubSeq, \o), as the Python code handles them.           *)
(***************************************************************************)
EXTENDS Integers, Sequences, FiniteSets, TLC

(***************************************************************************)
(* Python values                                                           *)
(***************************************************************************)
\* Python's None, as a definition (or module) that is absent.
None == [kind |-> "None"]

IsNone(x) == x = None

\* Python truthiness of "definition or None".
Truthy(x) == x # None

\* The string standing for None where Python has "a str or None".
NoStr == "<None>"

\* Python truthiness of "str or None".
StrTruthy(s) == s # NoStr /\ s # ""

(***************************************************************************)
(* str methods                                                             *)
(***************************************************************************)
\* s.startswith(p)
StartsWith(s, p) == Len(p) <= Len(s) /\ SubSeq(s, 1, Len(p)) = p

\* s.find(sub) + 1 : position of the first occurrence, 0 when there is none
Find(s, sub) ==
    LET first(hits) == IF hits = {} THEN 0 ELSE CHOOSE i \in hits : \A j \in hits : i <= j
    IN first({i \in 1..(Len(s) - Len(sub) + 1) : SubSeq(s, i, i + Len(sub) - 1) = sub})

\* s.rfind(sub) + 1
RFind(s, sub) ==
    LET last_of(hits) == IF hits = {} THEN 0 ELSE CHOOSE i \in hits : \A j \in hits : i >= j
    IN last_of({i \in 1..(Len(s) - Len(sub) + 1) : SubSeq(s, i, i + Len(sub) - 1) = sub})

\* s[n:] for n >= 0
DropChars(s, n) == IF n >= Len(s) THEN "" ELSE SubSeq(s, n + 1, Len(s))

\* s[:n] for n >= 0
TakeChars(s, n) == IF n >= Len(s) THEN s ELSE SubSeq(s, 1, n)

\* s.rpartition(sep) as <<before, sep, after>>; <<"", "", s>> when sep is absent
RPartition(s, sep) ==
    LET at(i) == IF i = 0 THEN <<"", "", s>>
                 ELSE <<TakeChars(s, i - 1), sep, DropChars(s, i + Len(sep) - 1)>>
    IN at(RFind(s, sep))

\* s.replace(old, new, 1): the first occurrence only
Replace1(s, old, new) ==
    LET at(i) == IF i = 0 THEN s
                 ELSE TakeChars(s, i - 1) \o new \o DropChars(s, i + Len(old) - 1)
    IN at(Find(s, old))

RECURSIVE Split(_, _)
\* s.split(sep); ''.split('.') is ['']
Split(s, sep) ==
    LET at(i) == IF i = 0 THEN <<s>>
                 ELSE <<TakeChars(s, i - 1)>> \o Split(DropChars(s, i + Len(sep) - 1), sep)
    IN at(Find(s, sep))

RECURSIVE Join(_, _)
\* sep.join(parts)
Join(parts, sep) ==
    IF Len(parts) = 0 THEN ""
    ELSE IF Len(parts) = 1 THEN parts[1]
    ELSE parts[1] \o sep \o Join(Tail(parts), sep)

RECURSIVE StripDots(_)
\* s.strip('.')
StripDots(s) ==
    IF Len(s) > 0 /\ SubSeq(s, 1, 1) = "." THEN StripDots(DropChars(s, 1))
    ELSE IF Len(s) > 0 /\ SubSeq(s, Len(s), Len(s)) = "." THEN StripDots(TakeChars(s, Len(s) - 1))
    ELSE s

RECURSIVE ReplaceAll(_, _, _)
\* s.replace(old, new) for a non-empty old
ReplaceAll(s, old, new) ==
    LET at(i) == IF i = 0 THEN s
                 ELSE TakeChars(s, i - 1) \o new \o ReplaceAll(DropChars(s, i + Len(old) - 1), old, new)
    IN at(Find(s, old))

\* list[-n:] for n >= 1
LastN(parts, n) == IF n >= Len(parts) THEN parts ELSE SubSeq(parts, Len(parts) - n + 1, Len(parts))

\* list[:n] and list[n:] for n >= 0
FirstN(parts, n) == IF n >= Len(parts) THEN parts ELSE SubSeq(parts, 1, n)

FromN(parts, n) == IF n >= Len(parts) THEN <<>> ELSE SubSeq(parts, n + 1, Len(parts))

(***************************************************************************)
(* greentype/utils/strings.py                                              *)
(***************************************************************************)
\* a variant of qname_merge_loop that looks for no overlap
qname_merge_loop_disjoint(parts1, parts2, n) == Join(parts1 \o parts2, ".")

RECURSIVE qname_merge_loop(_, _, _)
\* the loop "for n in range(len(parts2), 0, -1)" of qname_merge
qname_merge_loop(parts1, parts2, n) ==
    IF n = 0 THEN Join(parts1 \o parts2, ".")
    ELSE IF LastN(parts1, n) = FirstN(parts2, n) THEN Join(parts1 \o FromN(parts2, n), ".")
    ELSE qname_merge_loop(parts1, parts2, n - 1)

qname_merge(n1, n2) ==
    LET merge(parts1, parts2) == qname_merge_loop(parts1, parts2, Len(parts2))
    IN IF n1 = "" \/ n2 = "" THEN (IF n2 # "" THEN n2 ELSE n1)
       ELSE merge(Split(n1, "."), Split(n2, "."))

\* "head or None"
qname_head(name) ==
    LET or_none(head) == IF head = "" THEN NoStr ELSE head
    IN or_none(RPartition(name, ".")[3])

\* "tail or None"
qname_tail(name) ==
    LET or_none(tail) == IF tail = "" THEN NoStr ELSE tail
    IN or_none(RPartition(name, ".")[1])

qname_qualified_by(name, qualifier) ==
    IF ~StrTruthy(qualifier) THEN TRUE
    ELSE name = qualifier \/ StartsWith(name, qualifier \o ".")

\* a variant of qname_drop that keeps the qualifier
qname_drop_nothing(name, qualifier) == name

\* name without the qualifier and its dot, when name is qualified by it
qname_drop(name, qualifier) ==
    IF qname_qualified_by(name, qualifier) /\ StrTruthy(qualifier)
    THEN DropChars(name, Len(qualifier \o "."))
    ELSE name


(***************************************************************************)
(* Source facts: what ast.parse gives SourceModuleIndexer for one file.    *)
(* Parsing and walking the syntax tree is outside the model: a file is the *)
(* list of its top-level import statements and the list of its class and   *)
(* function definitions in visiting order, each naming the definition that *)
(* encloses it (parent = 0: the module).                                   *)
(***************************************************************************)
\* import <name> [as <asname>]
Import_(name, asname) ==
    [node |-> "Import", module |-> NoStr, level |-> 0,
     names |-> <<[name |-> name, asname |-> asname]>>]

\* from <dots><module> import <name> [as <asname>]   (name "*" for a star import)
ImportFrom_(module, level, name, asname) ==
    [node |-> "ImportFrom", module |-> module, level |-> level,
     names |-> <<[name |-> name, asname |-> asname]>>]

\* class <name>(<bases>): <attributes collected by ClassAttributeCollector>;
\* a computed base expression is NoStr (attributes_chain_to_name gives None)
ClassDef_(name, parent, bases, attributes) ==
    [node |-> "ClassDef", name |-> name, parent |-> parent, bases |-> bases,
     attributes |-> attributes, static |-> FALSE, args |-> <<>>, vararg |-> NoStr,
     kwarg |-> NoStr, kwonlyargs |-> <<>>, uses |-> <<>>]

\* def <name>(<args>, *<vararg>, <kwonlyargs>, **<kwarg>); uses[i] is what
\* SimpleAttributesCollector collects for the i-th name of args \o kwonlyargs
FunctionDef_(name, parent, static, args, uses) ==
    [node |-> "FunctionDef", name |-> name, parent |-> parent, bases |-> <<>>,
     attributes |-> {}, static |-> static, args |-> args, vararg |-> NoStr,
     kwarg |-> NoStr, kwonlyargs |-> <<>>, uses |-> uses]

SourceFile(imports, defs) == [syntax_error |-> FALSE, imports |-> imports, defs |-> defs]

\* a file ast.parse raises SyntaxError on
UnparsableFile == [syntax_error |-> TRUE, imports |-> <<>>, defs |-> <<>>]

(***************************************************************************)
(* The projects the analyzer is run on.  Each is a directory /r of source  *)
(* files; the analyzer is constructed on one of them.                      *)
(***************************************************************************)
EmptyFile == SourceFile(<<>>, <<>>)

\* a.py does "import p.m as m"; a top-level module m exists as well
FilesPlainImport ==
    [p \in {"/r/a.py", "/r/p/__init__.py", "/r/p/m.py", "/r/m.py"} |->
       CASE p = "/r/a.py" -> SourceFile(<<Import_("p.m", "m")>>, <<>>)
         [] p = "/r/p/__init__.py" -> EmptyFile
         [] p = "/r/p/m.py" -> SourceFile(<<>>, <<ClassDef_("B", 0, <<>>, {"foo"})>>)
         [] p = "/r/m.py" -> SourceFile(<<>>, <<ClassDef_("B", 0, <<>>, {"bar"})>>)]

\* a.py and a2.py do "from p.m import B as Alias"; a2.py then defines its own class Alias
FilesImportName ==
    [p \in {"/r/a.py", "/r/a2.py", "/r/p/__init__.py", "/r/p/m.py"} |->
       CASE p = "/r/a.py" -> SourceFile(<<ImportFrom_("p.m", 0, "B", "Alias")>>, <<>>)
         [] p = "/r/a2.py" -> SourceFile(<<ImportFrom_("p.m", 0, "B", "Alias")>>,
                                         <<ClassDef_("Alias", 0, <<>>, {"bar"})>>)
         [] p = "/r/p/__init__.py" -> EmptyFile
         [] p = "/r/p/m.py" -> SourceFile(<<>>, <<ClassDef_("B", 0, <<>>, {"foo"})>>)]

\* main.py and main2.py do "from pkg import *", pkg/__init__.py does
\* "from .sibling import B"; main2.py then defines its own class B
FilesImportStar ==
    [p \in {"/r/main.py", "/r/main2.py", "/r/pkg/__init__.py", "/r/pkg/sibling.py"} |->
       CASE p = "/r/main.py" -> SourceFile(<<ImportFrom_("pkg", 0, "*", NoStr)>>, <<>>)
         [] p = "/r/main2.py" -> SourceFile(<<ImportFrom_("pkg", 0, "*", NoStr)>>,
                                            <<ClassDef_("B", 0, <<>>, {"bar"})>>)
         [] p = "/r/pkg/__init__.py" -> SourceFile(<<ImportFrom_("sibling", 1, "B", NoStr)>>, <<>>)
         [] p = "/r/pkg/sibling.py" -> SourceFile(<<>>, <<ClassDef_("B", 0, <<>>, {"foo"})>>)]

\* c.py does "from pkg import mod as alias", pkg/mod.py does "from pkg.sib
\* import A" and defines B; a top-level module alias exists as well
FilesImportModule ==
    [p \in {"/r/c.py", "/r/pkg/__init__.py", "/r/pkg/mod.py", "/r/pkg/sib.py", "/r/alias.py"} |->
       CASE p = "/r/c.py" -> SourceFile(<<ImportFrom_("pkg", 0, "mod", "alias")>>, <<>>)
         [] p = "/r/pkg/__init__.py" -> EmptyFile
         [] p = "/r/pkg/mod.py" -> SourceFile(<<ImportFrom_("pkg.sib", 0, "A", NoStr)>>,
                                              <<ClassDef_("B", 0, <<>>, {"foo"})>>)
         [] p = "/r/pkg/sib.py" -> SourceFile(<<>>, <<ClassDef_("A", 0, <<>>, {"foo"})>>)
         [] p = "/r/alias.py" -> SourceFile(<<>>, <<ClassDef_("B", 0, <<>>, {"bar"})>>)]

\* test_data/inference/inheritance.py, func given a fourth parameter w that it never uses
FilesInheritance ==
    [p \in {"/r/inheritance.py"} |->
       SourceFile(<<>>,
         <<ClassDef_("A", 0, <<"object">>, {"foo"}),
           FunctionDef_("foo", 1, FALSE, <<"self">>, <<>>),
           ClassDef_("B", 0, <<"A">>, {"bar"}),
           ClassDef_("C", 0, <<"B", "A">>, {"baz"}),
           ClassDef_("D", 0, <<"dict">>, {"baz", "bar", "quux"}),
           FunctionDef_("func", 0, FALSE, <<"x", "y", "z", "w">>,
                        [x |-> {"foo"}, y |-> {"bar", "baz"}, z |-> {"quux"}])>>)]

\* test_data/inference/diamond_siblings.py
FilesDiamond ==
    [p \in {"/r/diamond_siblings.py"} |->
       SourceFile(<<>>,
         <<ClassDef_("D", 0, <<"object">>, {"bar"}),
           ClassDef_("B", 0, <<"D">>, {"foo"}),
           ClassDef_("C", 0, <<"D">>, {"foo", "bar"}),
           ClassDef_("A", 0, <<"B", "C">>, {"foo", "bar"}),
           FunctionDef_("func", 0, FALSE, <<"x">>, [x |-> {"foo", "bar"}])>>)]

\* test_data/inference/following_imports: a class whose base is defined in a
\* module that is imported but not yet indexed; func is given a second
\* parameter y, of which it reads the attribute foo
FilesFollowing ==
    [p \in {"/r/main.py", "/r/sibling.py"} |->
       CASE p = "/r/main.py" ->
              SourceFile(<<ImportFrom_("sibling", 0, "SuperClass", NoStr)>>,
                         <<ClassDef_("SubClass", 0, <<"SuperClass">>, {"bar"}),
                           FunctionDef_("func", 0, FALSE, <<"x", "y">>,
                                        [x |-> {"bar"}, y |-> {"foo"}])>>)
         [] p = "/r/sibling.py" ->
              SourceFile(<<>>, <<ClassDef_("SuperClass", 0, <<"object">>, {"foo", "bar"})>>)]

\* classes that name each other, their own simple name, or their own
\* qualified name as a base
FilesCycle ==
    [p \in {"/r/cyc.py"} |->
       SourceFile(<<>>,
         <<ClassDef_("A", 0, <<"B">>, {"foo"}),
           ClassDef_("B", 0, <<"A">>, {"bar"}),
           ClassDef_("S", 0, <<"S">>, {"baz"}),
           ClassDef_("Q", 0, <<"cyc.Q">>, {"quux"})>>)]

\* a module that defines class A twice, with different attributes
FilesTwice ==
    [p \in {"/r/twice.py"} |->
       SourceFile(<<>>,
         <<ClassDef_("A", 0, <<>>, {"foo", "old"}),
           ClassDef_("A", 0, <<>>, {"foo", "new"})>>)]

\* bad.py does not parse, and user.py does "import bad"
FilesBroken ==
    [p \in {"/r/bad.py", "/r/user.py"} |->
       CASE p = "/r/bad.py" -> UnparsableFile
         [] p = "/r/user.py" -> SourceFile(<<Import_("bad", NoStr)>>, <<>>)]

\* malformed.py does "from . import x" at a source root (no module, no
\* package); outside.py does "from .. import x", whose package directory /
\* is above every source root; sound.py is a module without imports
FilesMalformed ==
    [p \in {"/r/malformed.py", "/r/outside.py", "/r/sound.py"} |->
       CASE p = "/r/malformed.py" -> SourceFile(<<ImportFrom_(NoStr, 1, "x", NoStr)>>, <<>>)
         [] p = "/r/outside.py" -> SourceFile(<<ImportFrom_(NoStr, 2, "x", NoStr)>>, <<>>)
         [] p = "/r/sound.py" -> SourceFile(<<>>, <<ClassDef_("Z", 0, <<>>, {"foo"})>>)]

\* main.py does "import pkg.mod" and names its base class pkg.Base, a class
\* of pkg/__init__.py: a module that "import pkg.mod" loads in Python but
\* that no Import object of main names
FilesQualified ==
    [p \in {"/r/main.py", "/r/pkg/__init__.py", "/r/pkg/mod.py"} |->
       CASE p = "/r/main.py" -> SourceFile(<<Import_("pkg.mod", NoStr)>>,
                                           <<ClassDef_("Sub", 0, <<"pkg.Base">>, {"bar"})>>)
         [] p = "/r/pkg/__init__.py" ->
              SourceFile(<<>>, <<ClassDef_("Base", 0, <<"object">>, {"bar"})>>)
         [] p = "/r/pkg/mod.py" -> EmptyFile]

\* test_data/indexing/self_filtering.py as test_self_filtering reads it, and
\* three definitions more: a method with *args, a keyword-only parameter and
\* **kwargs, a method with no positional parameter at all, and a function x
\* nested in func, which has a parameter x
FilesSelfFiltering ==
    [p \in {"/r/self_filtering.py"} |->
       SourceFile(<<>>,
         <<FunctionDef_("func", 0, FALSE, <<"self", "x">>, [x |-> {"foo"}]),
           ClassDef_("MyClass", 0, <<"object">>, {"foo"}),
           FunctionDef_("method", 2, FALSE, <<"self", "x">>, <<>>),
           FunctionDef_("helper", 3, FALSE, <<"self", "x">>, <<>>),
           FunctionDef_("class_method", 2, FALSE, <<"self", "x">>, <<>>),
           FunctionDef_("static_method", 2, TRUE, <<"self", "x">>, <<>>),
           [FunctionDef_("variadic", 2, FALSE, <<"self", "x">>, <<>>)
              EXCEPT !.vararg = "args", !.kwarg = "kwargs", !.kwonlyargs = <<"k">>],
           [FunctionDef_("bare", 2, FALSE, <<>>, <<>>) EXCEPT !.vararg = "items"],
           FunctionDef_("x", 1, FALSE, <<>>, <<>>)>>)]

\* test_data/indexing/module_exclusion with EXCLUDE = ['excluded'] and
\* INCLUDE = ['excluded/included']; main.py is made to import a class from
\* the excluded module and one from the included module
FilesModuleExclusion ==
    [p \in {"/r/main.py", "/r/excluded/__init__.py", "/r/excluded/module.py",
            "/r/excluded/included/__init__.py", "/r/excluded/included/module.py"} |->
       CASE p = "/r/main.py" ->
              SourceFile(<<ImportFrom_("excluded.module", 0, "Hidden", NoStr),
                           ImportFrom_("excluded.included.module", 0, "Shown", NoStr)>>, <<>>)
         [] p = "/r/excluded/module.py" ->
              SourceFile(<<>>, <<ClassDef_("Hidden", 0, <<>>, {"foo"})>>)
         [] p = "/r/excluded/included/module.py" ->
              SourceFile(<<>>, <<ClassDef_("Shown", 0, <<>>, {"foo"})>>)
         [] OTHER -> EmptyFile]

\* main.py does "from loop import *" and then "from real import *"; loop.py
\* does "from main import *"; real.py defines Class
FilesRecursive ==
    [p \in {"/r/main.py", "/r/loop.py", "/r/real.py"} |->
       CASE p = "/r/main.py" -> SourceFile(<<ImportFrom_("loop", 0, "*", NoStr),
                                             ImportFrom_("real", 0, "*", NoStr)>>, <<>>)
         [] p = "/r/loop.py" -> SourceFile(<<ImportFrom_("main", 0, "*", NoStr)>>, <<>>)
         [] p = "/r/real.py" -> SourceFile(<<>>, <<ClassDef_("Class", 0, <<>>, {"foo"})>>)]

\* failing.py does "from back import *" and then "from outside import *";
\* back.py does "from failing import *"; indexing outside.py raises ValueError
\* ("from .. import x" above every source root)
FilesFailing ==
    [p \in {"/r/failing.py", "/r/back.py", "/r/outside.py"} |->
       CASE p = "/r/failing.py" -> SourceFile(<<ImportFrom_("back", 0, "*", NoStr),
                                                ImportFrom_("outside", 0, "*", NoStr)>>, <<>>)
         [] p = "/r/back.py" -> SourceFile(<<ImportFrom_("failing", 0, "*", NoStr)>>, <<>>)
         [] p = "/r/outside.py" -> SourceFile(<<ImportFrom_(NoStr, 2, "x", NoStr)>>, <<>>)]

\* order.py does "from m1 import *" and then "from m2 import *" and defines a
\* class dict of its own; m1.py and m2.py both define C
FilesResolutionOrder ==
    [p \in {"/r/order.py", "/r/m1.py", "/r/m2.py"} |->
       CASE p = "/r/order.py" -> SourceFile(<<ImportFrom_("m1", 0, "*", NoStr),
                                              ImportFrom_("m2", 0, "*", NoStr)>>,
                                            <<ClassDef_("dict", 0, <<>>, {"mine"})>>)
         [] p = "/r/m1.py" -> SourceFile(<<>>, <<ClassDef_("C", 0, <<>>, {"foo"})>>)
         [] p = "/r/m2.py" -> SourceFile(<<>>, <<ClassDef_("C", 0, <<>>, {"bar"})>>)]

\* D(object) without members, B(D) with foo, C(D) with bar, and A(B, C)
\* without members of its own
FilesDiamondUnion ==
    [p \in {"/r/diamond_union.py"} |->
       SourceFile(<<>>,
         <<ClassDef_("D", 0, <<"object">>, {}),
           ClassDef_("B", 0, <<"D">>, {"foo"}),
           ClassDef_("C", 0, <<"D">>, {"bar"}),
           ClassDef_("A", 0, <<"B", "C">>, {})>>)]

\* a.py and b.py import each other, by "import" and by "from ... import ...
\* as ..."; b.py imports itself as well, by "import b" and "from b import *"
FilesImportCycles ==
    [p \in {"/r/a.py", "/r/b.py"} |->
       CASE p = "/r/a.py" -> SourceFile(<<Import_("b", NoStr),
                                          ImportFrom_("b", 0, "Y", "X")>>,
                                        <<ClassDef_("A", 0, <<"X">>, {"foo"})>>)
         [] p = "/r/b.py" -> SourceFile(<<Import_("a", NoStr),
                                          ImportFrom_("a", 0, "X", "Y"),
                                          Import_("b", NoStr),
                                          ImportFrom_("b", 0, "*", NoStr)>>,
                                        <<ClassDef_("Z", 0, <<"b.a.A">>, {"bar"})>>)]

Scenarios ==
    {"plain_import", "import_name", "import_star", "import_module", "inheritance",
     "diamond", "following", "cycle", "twice", "broken", "malformed",
     "qualified", "self_filtering", "module_exclusion", "recursive", "failing",
     "import_cycles", "resolution_order", "diamond_union"}

Files(sc) ==
    CASE sc = "plain_import" -> FilesPlainImport
      [] sc = "import_name" -> FilesImportName
      [] sc = "import_star" -> FilesImportStar
      [] sc = "import_module" -> FilesImportModule
      [] sc = "inheritance" -> FilesInheritance
      [] sc = "diamond" -> FilesDiamond
      [] sc = "following" -> FilesFollowing
      [] sc = "cycle" -> FilesCycle
      [] sc = "twice" -> FilesTwice
      [] sc = "broken" -> FilesBroken
      [] sc = "malformed" -> FilesMalformed
      [] sc = "qualified" -> FilesQualified
      [] sc = "self_filtering" -> FilesSelfFiltering
      [] sc = "module_exclusion" -> FilesModuleExclusion
      [] sc = "recursive" -> FilesRecursive
      [] sc = "failing" -> FilesFailing
      [] sc = "import_cycles" -> FilesImportCycles
      [] sc = "resolution_order" -> FilesResolutionOrder
      [] sc = "diamond_union" -> FilesDiamondUnion

\* the paths index_module(path=...) is called with
Paths(sc) ==
    CASE sc = "plain_import" -> {"/r/a.py", "/r/m.py"}
      [] sc = "import_name" -> {"/r/a.py", "/r/a2.py"}
      [] sc = "import_star" -> {"/r/main.py", "/r/main2.py"}
      [] sc = "import_module" -> {"/r/c.py", "/r/alias.py"}
      [] sc = "qualified" -> {"/r/main.py", "/r/pkg/__init__.py"}
      [] sc = "module_exclusion" -> {"/r/main.py", "/r/excluded/module.py"}
      [] sc = "recursive" -> {"/r/main.py", "/r/loop.py"}
      [] sc = "failing" -> {"/r/failing.py"}
      [] sc = "resolution_order" -> {"/r/order.py"}
      [] OTHER -> DOMAIN Files(sc)

\* the module names index_module(name=...) is called with
ModuleNames(sc) ==
    CASE sc = "plain_import" -> {"p.m", "p.x"}
      [] sc = "import_name" -> {"p.m"}
      [] sc = "import_star" -> {"pkg.sibling"}
      [] sc = "import_module" -> {"pkg.mod"}
      [] sc = "inheritance" -> {"inheritance"}
      [] sc = "diamond" -> {"diamond_siblings"}
      [] sc = "following" -> {"sibling"}
      [] sc = "cycle" -> {"cyc"}
      [] sc = "twice" -> {"twice"}
      [] sc = "broken" -> {"bad", "missing"}
      [] sc = "malformed" -> {"malformed", "sound"}
      [] sc = "qualified" -> {"pkg"}
      [] sc = "self_filtering" -> {"self_filtering"}
      [] sc = "module_exclusion" -> {"excluded.module", "excluded.included.module"}
      [] sc = "recursive" -> {"loop"}
      [] sc = "failing" -> {"back"}
      [] sc = "import_cycles" -> {"b"}
      [] sc = "resolution_order" -> {"m2"}
      [] sc = "diamond_union" -> {"diamond_union"}

\* the references resolve_name is asked to resolve, as <<name, qname of the
\* module the name occurs in>>
References(sc) ==
    CASE sc = "plain_import" -> {<<"m.B", "a">>}
      [] sc = "import_name" -> {<<"Alias", "a">>, <<"Alias", "a2">>}
      [] sc = "import_star" -> {<<"B", "main">>, <<"B", "main2">>}
      [] sc = "import_module" -> {<<"alias.B", "c">>, <<"alias.A", "c">>}
      [] sc = "following" -> {<<"SuperClass", "main">>}
      [] sc = "module_exclusion" -> {<<"Hidden", "main">>, <<"Shown", "main">>}
      [] sc = "recursive" -> {<<"Class", "main">>, <<"Class", "loop">>, <<"Missing", "main">>}
      [] sc = "failing" -> {<<"Class", "failing">>}
      [] sc = "import_cycles" ->
           {<<"X", "a">>, <<"b.a.b.Z", "a">>, <<"Y", "b">>, <<"b.a.A", "b">>, <<"b", "b">>}
      [] sc = "resolution_order" ->
           {<<"dict", "order">>, <<"C", "order">>}
      [] OTHER -> {}

\* the attribute sets suggest_classes is called with
AttributeSets(sc) ==
    CASE sc = "inheritance" -> {{}, {"foo"}, {"bar"}, {"baz"}, {"bar", "baz"}, {"quux"}}
      [] sc = "diamond" -> {{}, {"foo"}, {"bar"}, {"foo", "bar"}}
      [] sc = "following" -> {{}, {"foo"}, {"bar"}, {"foo", "bar"}}
      [] sc = "cycle" -> {{"foo"}, {"baz"}}
      [] sc = "twice" -> {{"foo"}, {"old"}}
      [] sc = "qualified" -> {{"bar"}}
      [] sc = "diamond_union" -> {{"foo", "bar"}}
      [] OTHER -> {{}}

\* the orders in which sets are iterated and the parameters are listed:
\* qnames, smaller position first
Orders(sc) ==
    CASE sc = "inheritance" ->
           {<<"inheritance.A", "inheritance.B", "inheritance.C", "inheritance.D",
              "inheritance.func.x", "inheritance.func.y", "inheritance.func.z">>,
            <<"inheritance.D", "inheritance.C", "inheritance.B", "inheritance.A",
              "inheritance.func.z", "inheritance.func.y", "inheritance.func.x">>}
      [] sc = "diamond" ->
           {<<"diamond_siblings.A", "diamond_siblings.B", "diamond_siblings.C",
              "diamond_siblings.D">>,
            <<"diamond_siblings.D", "diamond_siblings.C", "diamond_siblings.B",
              "diamond_siblings.A">>,
            <<"diamond_siblings.B", "diamond_siblings.A", "diamond_siblings.D",
              "diamond_siblings.C">>}
      [] sc = "following" ->
           {<<"main.SubClass", "sibling.SuperClass", "main.func.x", "main.func.y">>,
            <<"sibling.SuperClass", "main.SubClass", "main.func.y", "main.func.x">>}
      [] OTHER -> {<<>>}

\* config['PROJECT_ROOT'], config['SOURCE_ROOTS'], config['INCLUDE'],
\* config['EXCLUDE'] (absolute, normalized), config['ANALYZE_BUILTINS'],
\* sys.path and os.getcwd()
ProjectConfig(sc) ==
    [PROJECT_ROOT |-> "/r", SOURCE_ROOTS |-> <<>>,
     ANALYZE_BUILTINS |-> sc = "resolution_order",
     INCLUDE |-> IF sc = "module_exclusion" THEN <<"/r/excluded/included">> ELSE <<>>,
     EXCLUDE |-> IF sc = "module_exclusion" THEN <<"/r/excluded">> ELSE <<>>,
     sys_path |-> <<>>, cwd |-> "/r"]

compat_PY2 == FALSE

BUILTINS_NAME == IF compat_PY2 THEN "__builtin__" ELSE "builtins"

(***************************************************************************)
(* os.path, on absolute normalized POSIX paths                             *)
(***************************************************************************)
RECURSIVE RStripSlash(_)
RStripSlash(s) ==
    IF Len(s) > 0 /\ SubSeq(s, Len(s), Len(s)) = "/" THEN RStripSlash(TakeChars(s, Len(s) - 1))
    ELSE s

\* posixpath.split
os_path_split(p) ==
    LET strip(head, stripped) == IF head # "" /\ stripped # "" THEN stripped ELSE head
        rstrip(head) == strip(head, RStripSlash(head))
        at(i) == <<rstrip(TakeChars(p, i)), DropChars(p, i)>>
    IN at(RFind(p, "/"))

os_path_dirname(p) == os_path_split(p)[1]

\* posixpath.join(a, b)
os_path_join(a, b) ==
    IF StartsWith(b, "/") THEN b
    ELSE IF a = "" \/ SubSeq(a, Len(a), Len(a)) = "/" THEN a \o b
    ELSE a \o "/" \o b

\* posixpath.splitext: the extension starts at the last dot of the last
\* component, leading dots of that component not counted
os_path_splitext(p) ==
    LET at(sep, dot) ==
          IF dot > sep /\ \E i \in (sep + 1)..(dot - 1) : SubSeq(p, i, i) # "."
          THEN <<TakeChars(p, dot - 1), DropChars(p, dot - 1)>>
          ELSE <<p, "">>
    IN at(RFind(p, "/"), RFind(p, "."))

\* the non-empty components of a path
PathParts(p) == SelectSeq(Split(p, "/"), LAMBDA c : c # "")

RECURSIVE CommonLen(_, _)
CommonLen(a, b) ==
    IF Len(a) = 0 \/ Len(b) = 0 \/ a[1] # b[1] THEN 0 ELSE 1 + CommonLen(Tail(a), Tail(b))

\* posixpath.relpath(path, start)
os_path_relpath(path, start) ==
    LET joined(rel_list) == IF Len(rel_list) = 0 THEN "." ELSE Join(rel_list, "/")
        rel(start_list, path_list, i) ==
          joined([k \in 1..(Len(start_list) - i) |-> ".."] \o FromN(path_list, i))
        lists(start_list, path_list) ==
          rel(start_list, path_list, CommonLen(start_list, path_list))
    IN lists(PathParts(start), PathParts(path))

os_path_isfile(sc, p) == p \in DOMAIN Files(sc)

\* a directory exists when a file of the project lies in it
os_path_isdir(sc, p) == \E f \in DOMAIN Files(sc) : p = "/" \/ StartsWith(f, p \o "/")

os_path_exists(sc, p) == os_path_isfile(sc, p) \/ os_path_isdir(sc, p)

(***************************************************************************)
(* greentype/utils/paths.py                                                *)
(***************************************************************************)
RECURSIVE parent_directories_loop(_, _)
parent_directories_loop(start, stop) ==
    LET up(parent) == IF parent = stop \/ parent = start THEN <<>>
                      ELSE <<parent>> \o parent_directories_loop(parent, stop)
    IN up(os_path_dirname(start))

\* parent_directories(start, stop) with strict=True
parent_directories(start, stop) ==
    IF start = stop THEN <<>> ELSE parent_directories_loop(start, stop)

is_python_source_module(sc, path) ==
    os_path_isfile(sc, path) /\ os_path_splitext(path)[2] = ".py"

(***************************************************************************)
(* GreenTypeAnalyzer: configuration and path <-> module name               *)
(***************************************************************************)
SeqToSet(s) == {s[i] : i \in DOMAIN s}

\* the property source_roots
source_roots(sc) ==
    LET prepend(root, result) == IF root \notin SeqToSet(result) THEN <<root>> \o result
                                 ELSE result
        of(config) == prepend(config.PROJECT_ROOT, config.SOURCE_ROOTS)
    IN of(ProjectConfig(sc))

\* a variant of is_excluded that excludes nothing
is_excluded_nothing(sc, path) == FALSE

is_excluded(sc, path) ==
    LET of(config) ==
          IF \E i \in DOMAIN config.INCLUDE : StartsWith(path, config.INCLUDE[i])
          THEN FALSE
          ELSE IF \E i \in DOMAIN config.EXCLUDE : StartsWith(path, config.EXCLUDE[i])
          THEN TRUE
          ELSE FALSE
    IN of(ProjectConfig(sc))

is_inside_project(sc, path) ==
    StartsWith(path, ProjectConfig(sc).PROJECT_ROOT) /\ ~is_excluded(sc, path)

\* source_roots + [p for p in sys.path if p not in ('', '.', os.getcwd())]
search_roots(sc) ==
    LET of(config) ==
          SelectSeq(config.sys_path, LAMBDA p : p \notin {"", ".", config.cwd})
    IN source_roots(sc) \o of(ProjectConfig(sc))

\* all(os.path.exists(os.path.join(dir, '__init__.py')) for dir in parent_directories(path, src_root))
packages_on_the_way(sc, path, src_root) ==
    LET all(dirs) == \A i \in DOMAIN dirs :
                       os_path_exists(sc, os_path_join(dirs[i], "__init__.py"))
    IN all(parent_directories(path, src_root))

RECURSIVE path_to_module_name_loop(_, _, _)
path_to_module_name_loop(sc, path, roots) ==
    IF Len(roots) = 0 THEN [ok |-> FALSE, value |-> "ValueError"]
    ELSE LET prepared(relative, dir_base) ==
               IF dir_base[2] = "__init__.py" THEN dir_base[1]
               ELSE os_path_splitext(relative)[1]
             split(relative) == prepared(relative, os_path_split(relative))
             try(src_root) ==
               IF StartsWith(path, src_root) /\ packages_on_the_way(sc, path, src_root)
               THEN [ok |-> TRUE,
                     value |-> StripDots(ReplaceAll(split(os_path_relpath(path, src_root)),
                                                    "/", "."))]
               ELSE path_to_module_name_loop(sc, path, Tail(roots))
         IN try(roots[1])

\* [ok |-> TRUE, value |-> name], or ok = FALSE for the ValueError
path_to_module_name(sc, path) == path_to_module_name_loop(sc, path, search_roots(sc))

RECURSIVE module_name_to_path_loop(_, _, _)
module_name_to_path_loop(sc, module_name, roots) ==
    IF Len(roots) = 0 THEN [ok |-> FALSE, value |-> "ValueError"]
    ELSE LET check(src_root, found) ==
               IF found # NoStr /\ packages_on_the_way(sc, found, src_root)
               THEN [ok |-> TRUE, value |-> found]
               ELSE module_name_to_path_loop(sc, module_name, Tail(roots))
             candidates(src_root, package_path, module_path) ==
               check(src_root, IF os_path_isfile(sc, package_path) THEN package_path
                               ELSE IF os_path_isfile(sc, module_path) THEN module_path
                               ELSE NoStr)
             at(src_root, path) ==
               candidates(src_root, os_path_join(path, "__init__.py"), path \o ".py")
             try(src_root) ==
               at(src_root, os_path_join(src_root, Join(Split(module_name, "."), "/")))
         IN try(roots[1])

module_name_to_path(sc, module_name) ==
    module_name_to_path_loop(sc, module_name, search_roots(sc))


(***************************************************************************)
(* Definitions (core.py, class Definition and its subclasses).  A Python   *)
(* object is a record; the field oid tells one object from another with    *)
(* the same content (is / is not), while == and hash() go by qname.        *)
(***************************************************************************)
Import(imported_name, local_name, import_from, star_import) ==
    [imported_name |-> imported_name, local_name |-> local_name,
     import_from |-> import_from, star_import |-> star_import]

\* Import.imports_name
imports_name(imp, name) ==
    IF imp.star_import THEN FALSE ELSE qname_qualified_by(name, imp.local_name)

ModuleDef(qname, path, imports, oid) ==
    [kind |-> "module", qname |-> qname, path |-> path, imports |-> imports, oid |-> oid]

ClassDef(qname, module, bases, attributes, oid) ==
    [kind |-> "class", qname |-> qname, module |-> module, bases |-> bases,
     attributes |-> attributes, oid |-> oid]

FunctionDef(qname, module, parameters, oid) ==
    [kind |-> "function", qname |-> qname, module |-> module, parameters |-> parameters,
     oid |-> oid]

ParameterDef(qname, attributes, module, oid) ==
    [kind |-> "parameter", qname |-> qname, module |-> module, attributes |-> attributes,
     oid |-> oid]

\* the property Definition.name
Definition_name(d) == RPartition(d.qname, ".")[3]

\* Definition.__eq__ (and __hash__): two definitions are equal when their qnames are
Definition_eq(a, b) == a.qname = b.qname

PY2_FAKE_OBJECT == ClassDef("PY2_FAKE_OBJECT", None, <<>>, {"__doc__", "__module__"}, <<"core">>)

\* x in s, for a Python set of definitions
PyIn(x, s) == \E e \in s : Definition_eq(e, x)

\* s.add(x): a set keeps the element it already holds when an equal one is added
PySetAdd(s, x) == IF PyIn(x, s) THEN s ELSE s \cup {x}

\* s | t and s.update(t)
PySetUnion(s, t) == s \cup {x \in t : ~PyIn(x, s)}

\* s.remove(x)
PySetRemove(s, x) == {e \in s : ~Definition_eq(e, x)}

\* d[k] = v on a dict
Put(d, k, v) == (k :> v) @@ d

(***************************************************************************)
(* The analyzer object.  self is the record of its fields; every method    *)
(* below takes self and gives back [self, ret, exc]: the analyzer after    *)
(* the call, the value returned, and the exception raised ("" for none).   *)
(***************************************************************************)
Return(self, value) == [self |-> self, ret |-> value, exc |-> ""]

Raise(self, exception) == [self |-> self, ret |-> None, exc |-> exception]

\* Index(set).__getitem__ of CLASS_ATTRIBUTE_INDEX: a missing key reads as set()
attribute_classes(self, attr) ==
    IF attr \in DOMAIN self.CLASS_ATTRIBUTE_INDEX THEN self.CLASS_ATTRIBUTE_INDEX[attr] ELSE {}

RECURSIVE add_to_attribute_index(_, _, _)
\* for attr in class_def.attributes: CLASS_ATTRIBUTE_INDEX[attr].add(class_def)
add_to_attribute_index(index, attrs, class_def) ==
    IF attrs = {} THEN index
    ELSE LET attr == CHOOSE a \in attrs : TRUE
             old == IF attr \in DOMAIN index THEN index[attr] ELSE {}
         IN add_to_attribute_index(Put(index, attr, PySetAdd(old, class_def)),
                                   attrs \ {attr}, class_def)

\* class_def.attributes after register_class has stripped it in place
registered_attributes(class_def) ==
    IF class_def.qname \notin {BUILTINS_NAME \o ".object", PY2_FAKE_OBJECT.qname}
    THEN (class_def.attributes \ {"__doc__"}) \ (IF compat_PY2 THEN {} ELSE {"__init__"})
    ELSE class_def.attributes

register_class(self, class_def) ==
    LET put(obj) ==
          Return([self EXCEPT
                    !.CLASS_INDEX = Put(@, obj.qname, obj),
                    !.CLASS_ATTRIBUTE_INDEX = add_to_attribute_index(@, obj.attributes, obj)],
                 obj)
    IN put([class_def EXCEPT !.attributes = registered_attributes(class_def)])

RECURSIVE register_parameters(_, _, _)
register_parameters(index, parameters, i) ==
    IF i > Len(parameters) THEN index
    ELSE register_parameters(Put(index, parameters[i].qname, parameters[i]), parameters, i + 1)

register_function(self, func_def) ==
    Return([self EXCEPT
              !.FUNCTION_INDEX = Put(@, func_def.qname, func_def),
              !.PARAMETER_INDEX = register_parameters(@, func_def.parameters, 1)],
           func_def)

register_module(self, module_def) ==
    Return([self EXCEPT !.MODULE_INDEX = Put(@, module_def.qname, module_def)], module_def)

(***************************************************************************)
(* SourceModuleIndexer                                                     *)
(***************************************************************************)
RECURSIVE dirname_times(_, _)
\* for _ in range(child.level): package_path = os.path.dirname(package_path)
dirname_times(path, level) ==
    IF level = 0 THEN path ELSE dirname_times(os_path_dirname(path), level - 1)

\* alias.asname or alias.name
asname_or_name(alias) == IF StrTruthy(alias.asname) THEN alias.asname ELSE alias.name

\* the Import objects of a "from ... import ..." statement whose module is target_module
imports_from(child, target_module) ==
    [i \in DOMAIN child.names |->
       IF child.names[i].name = "*"
       THEN Import(target_module, NoStr, TRUE, TRUE)
       ELSE Import(target_module \o "." \o child.names[i].name,
                   asname_or_name(child.names[i]), TRUE, FALSE)]

\* visit_ImportFrom once the package of a relative import is known (pkg.value
\* is '' for an absolute import)
imports_in_package(child, pkg, has_module) ==
    IF ~pkg.ok THEN [exc |-> "ValueError", imports |-> <<>>]
    ELSE IF ~has_module /\ pkg.value = "" THEN [exc |-> "Exception", imports |-> <<>>]
    ELSE [exc |-> "",
          imports |-> imports_from(child, IF has_module /\ pkg.value # ""
                                          THEN pkg.value \o "." \o child.module
                                          ELSE IF has_module THEN child.module
                                          ELSE pkg.value)]

\* the Import objects of one import statement, or the exception it raises
statement_imports(sc, module_path, child) ==
    IF child.node = "Import"
    THEN [exc |-> "",
          imports |-> [i \in DOMAIN child.names |->
                         Import(child.names[i].name, asname_or_name(child.names[i]), FALSE, FALSE)]]
    ELSE imports_in_package(child,
                            IF child.level > 0
                            THEN path_to_module_name(sc, dirname_times(module_path, child.level))
                            ELSE [ok |-> TRUE, value |-> ""],
                            StrTruthy(child.module))

RECURSIVE collect_imports(_, _, _, _, _)
\* the statement's imports are appended, and the walk goes on, unless it raised
collect_imports_next(sc, module_path, statements, i, imports, one) ==
    IF one.exc # "" THEN one
    ELSE collect_imports(sc, module_path, statements, i + 1, imports \o one.imports)

\* the import statements of the module in order, from statement number i on
collect_imports(sc, module_path, statements, i, imports) ==
    IF i > Len(statements) THEN [exc |-> "", imports |-> imports]
    ELSE collect_imports_next(sc, module_path, statements, i, imports,
                              statement_imports(sc, module_path, statements[i]))

\* the end of module_discovered: register_module, unless an import statement raised
module_discovered_register(self, module_path, module_name, got) ==
    IF got.exc # "" THEN Raise(self, got.exc)
    ELSE register_module(self, ModuleDef(module_name, module_path, got.imports,
                                         <<self.indexer_runs, 0>>))

\* module_discovered: the ModuleDef is registered only when no import statement raised
module_discovered(self, module_path, module_name) ==
    module_discovered_register(self, module_path, module_name,
        collect_imports(self.sc, module_path, Files(self.sc)[module_path].imports, 1, <<>>))

RECURSIVE qualified_name(_, _, _)
\* qualified_name: the enclosing definition's qname, a dot, the node's name
qualified_name(module_def, defs, i) ==
    (IF defs[i].parent = 0 THEN module_def.qname
     ELSE qualified_name(module_def, defs, defs[i].parent)) \o "." \o defs[i].name

class_discovered(self, module_def, defs, i) ==
    LET node == defs[i]
        bases_names == (IF Len(node.bases) = 0
                        THEN <<IF compat_PY2 THEN PY2_FAKE_OBJECT.qname
                               ELSE BUILTINS_NAME \o ".object">>
                        ELSE <<>>) \o SelectSeq(node.bases, LAMBDA b : b # NoStr)
    IN register_class(self, ClassDef(qualified_name(module_def, defs, i), module_def,
                                     bases_names, node.attributes,
                                     <<self.indexer_runs, i>>))

\* what SimpleAttributesCollector(param_name) collects in the function body
collected_attributes(node, param_name) ==
    IF param_name \in DOMAIN node.uses THEN node.uses[param_name] ELSE {}

\* a variant of function_discovered that takes any enclosing definition for
\* a class: a function nested in a method loses its first parameter too
function_discovered_nested(self, module_def, defs, i) ==
    LET node == defs[i]
        declared_params == (IF node.parent # 0 /\ ~node.static THEN FromN(node.args, 1)
                            ELSE node.args)
                           \o <<node.vararg, node.kwarg>>
                           \o (IF compat_PY2 THEN <<>> ELSE node.kwonlyargs)
        parameters(func_name, present) ==
          [k \in DOMAIN present |->
             ParameterDef(func_name \o "." \o present[k],
                          collected_attributes(node, present[k]), module_def,
                          <<self.indexer_runs, i, k>>)]
    IN register_function(self,
           FunctionDef(qualified_name(module_def, defs, i), module_def,
                       parameters(qualified_name(module_def, defs, i),
                                  SelectSeq(declared_params, LAMBDA a : a # NoStr)),
                       <<self.indexer_runs, i>>))

function_discovered(self, module_def, defs, i) ==
    LET node == defs[i]
        in_class == node.parent # 0 /\ defs[node.parent].node = "ClassDef"
        declared_params == (IF in_class /\ ~node.static THEN FromN(node.args, 1) ELSE node.args)
                           \o <<node.vararg, node.kwarg>>
                           \o (IF compat_PY2 THEN <<>> ELSE node.kwonlyargs)
        parameters(func_name, present) ==
          [k \in DOMAIN present |->
             ParameterDef(func_name \o "." \o present[k],
                          collected_attributes(node, present[k]), module_def,
                          <<self.indexer_runs, i, k>>)]
        discovered(func_name) ==
          register_function(self,
              FunctionDef(func_name, module_def,
                          parameters(func_name,
                                     SelectSeq(declared_params, LAMBDA a : a # NoStr)),
                          <<self.indexer_runs, i>>))
    IN discovered(qualified_name(module_def, defs, i))

RECURSIVE visit_definitions(_, _, _, _)
\* generic_visit: visit_ClassDef and visit_FunctionDef on the definitions in order
visit_definitions(self, module_def, defs, i) ==
    IF i > Len(defs) THEN self
    ELSE visit_definitions(
             (IF defs[i].node = "ClassDef" THEN class_discovered(self, module_def, defs, i)
              ELSE function_discovered(self, module_def, defs, i)).self,
             module_def, defs, i + 1)

\* the visit of the module's definitions, once module_discovered has returned
run_visit(found, defs) ==
    IF found.exc # "" THEN found
    ELSE Return(visit_definitions(found.self, found.ret, defs, 1), found.ret)

\* ast.parse(f.read(), self.module_path): one more parse of the file at path.
\* The objects a run creates are told from those of other runs by the run's number.
ast_parse(self, path) ==
    [self EXCEPT !.indexer_runs = @ + 1,
                 !.parsed = Put(@, path, (IF path \in DOMAIN @ THEN @[path] ELSE 0) + 1)]

\* SourceModuleIndexer(analyzer, path, name).run()
SourceModuleIndexer_run(self, path, name) ==
    IF Files(self.sc)[path].syntax_error THEN Raise(ast_parse(self, path), "SyntaxError")
    ELSE run_visit(module_discovered(ast_parse(self, path), path, name),
                   Files(self.sc)[path].defs)


(***************************************************************************)
(* GreenTypeAnalyzer.index_module                                          *)
(***************************************************************************)
\* The depth of nested Python calls at which the interpreter raises RecursionError.
RecursionLimit == 12

RECURSIVE index_module(_, _, _, _)
RECURSIVE follow_imports(_, _, _, _)

\* a variant of loaded that finds a module only once its file was parsed twice
loaded_late(self, name) ==
    IF name \in DOMAIN self.MODULE_INDEX /\ self.parsed[self.MODULE_INDEX[name].path] > 1
    THEN self.MODULE_INDEX[name] ELSE None

\* loaded = self.indexes['MODULE_INDEX'].get(name)
loaded(self, name) ==
    IF name \in DOMAIN self.MODULE_INDEX THEN self.MODULE_INDEX[name] ELSE None

\* "from foo.bar import baz" indexes foo.bar.baz and then foo.bar as well;
\* the other forms index the imported name alone
follow_import_from(first, imp, depth) ==
    IF first.exc # "" \/ ~imp.import_from \/ imp.star_import THEN first
    ELSE index_module(first.self, NoStr, qname_tail(imp.imported_name), depth)

\* the next import of the loop, unless indexing raised
follow_imports_next(indexed, imports, i, depth) ==
    IF indexed.exc # "" THEN indexed
    ELSE follow_imports(indexed.self, imports, i + 1, depth)

\* "for imp in module_indexed.imports" under FOLLOW_IMPORTS, from import number i on
follow_imports(self, imports, i, depth) ==
    IF i > Len(imports) THEN Return(self, None)
    ELSE follow_imports_next(
             follow_import_from(index_module(self, NoStr, imports[i].imported_name, depth),
                                imports[i], depth),
             imports, i, depth)

\* return module_indexed, after the imports were followed
index_module_return(module_indexed, followed) ==
    IF followed.exc # "" THEN followed ELSE Return(followed.self, module_indexed)

\* a variant of index_module_follow that follows the imports whatever the
\* configuration says
index_module_follow_always(ran, path, depth) ==
    IF ran.exc = "SyntaxError"
    THEN Return([ran.self EXCEPT !.broken_modules = @ \cup {path}], None)
    ELSE IF ran.exc # "" THEN ran
    ELSE index_module_return(ran.ret,
                             follow_imports(ran.self, ran.ret.imports, 1, depth + 1))

\* what index_module does with the module the indexer returned; of the
\* exceptions of the run it catches SyntaxError alone, and marks the path broken
index_module_follow(ran, path, depth) ==
    IF ran.exc = "SyntaxError"
    THEN Return([ran.self EXCEPT !.broken_modules = @ \cup {path}], None)
    ELSE IF ran.exc # "" \/ ~ran.self.FOLLOW_IMPORTS THEN ran
    ELSE index_module_return(ran.ret,
                             follow_imports(ran.self, ran.ret.imports, 1, depth + 1))

\* index_module once both the path and the name of the module are known
index_module_load(self, path, name, depth) ==
    IF Truthy(loaded(self, name)) THEN Return(self, loaded(self, name))
    ELSE IF is_excluded(self.sc, path) THEN Return(self, None)
    ELSE index_module_follow(SourceModuleIndexer_run(self, path, name), path, depth)

\* conv is the name of the path given, or the path of the name given; a
\* failed conversion marks the argument as broken
index_module_converted(self, path, name, conv, depth) ==
    IF ~conv.ok
    THEN Return([self EXCEPT !.broken_modules = @ \cup {IF path # NoStr THEN path ELSE name}],
                None)
    ELSE index_module_load(self, IF path # NoStr THEN path ELSE conv.value,
                           IF path # NoStr THEN conv.value ELSE name, depth)

\* index_module(path=path) or index_module(name=name); the absent one is NoStr
index_module(self, path, name, depth) ==
    IF depth > RecursionLimit THEN Raise(self, "RecursionError")
    ELSE IF name = NoStr /\ path = NoStr THEN Raise(self, "ValueError")
    ELSE IF name \in self.broken_modules \/ path \in self.broken_modules THEN Return(self, None)
    ELSE index_module_converted(self, path, name,
                                IF path # NoStr THEN path_to_module_name(self.sc, path)
                                ELSE module_name_to_path(self.sc, name),
                                depth)

(***************************************************************************)
(* GreenTypeAnalyzer.index_project                                         *)
(***************************************************************************)
EXCLUDED_DIRECTORIES == {".svn", "CVS", ".bzr", ".hg", ".git", "__pycache__"}

\* config['TARGET_PATH']: the analyzer is constructed on the project
\* directory, or on one file of it (PROJECT_ROOT is the same in both cases)
TargetPaths(sc) ==
    {ProjectConfig(sc).PROJECT_ROOT} \cup (IF sc = "following" THEN {"/r/main.py"} ELSE {})

RECURSIVE Permutations_(_)
\* the sequences that list every element of the set once
Permutations_(S) ==
    IF S = {} THEN {<<>>}
    ELSE UNION {{<<x>> \o rest : rest \in Permutations_(S \ {x})} : x \in S}

\* os.walk(target_path), top down, as the sequences of files it can yield:
\* the files of a directory come before those of the directories below it,
\* the listing order of a directory is the file system's, and the
\* directories named in EXCLUDED_DIRECTORIES are not entered
os_walk(sc, top) ==
    {walk \in Permutations_({f \in DOMAIN Files(sc) :
                                /\ StartsWith(f, top \o "/")
                                /\ SeqToSet(PathParts(os_path_dirname(f)))
                                       \cap EXCLUDED_DIRECTORIES = {}}) :
       \A i, j \in DOMAIN walk :
          StartsWith(os_path_dirname(walk[j]), os_path_dirname(walk[i]) \o "/") => i < j}

RECURSIVE index_project_loop(_, _, _)
\* the next file of the walk, unless index_module raised
index_project_next(indexed, walk, i) ==
    IF indexed.exc # "" THEN indexed ELSE index_project_loop(indexed.self, walk, i + 1)

\* "for name in filenames": files that are not Python sources, or not inside
\* the project, are passed over; the others are indexed by path
index_project_loop(self, walk, i) ==
    IF i > Len(walk) THEN Return(self, None)
    ELSE index_project_next(
             IF ~is_python_source_module(self.sc, walk[i]) \/ ~is_inside_project(self.sc, walk[i])
             THEN Return(self, None)
             ELSE index_module(self, walk[i], NoStr, 1),
             walk, i)

\* index_project(), the walk of the target directory being walk; a target
\* that is a file is indexed alone
index_project(self, target_path, walk) ==
    IF os_path_isfile(self.sc, target_path)
    THEN IF ~is_python_source_module(self.sc, target_path)
         THEN Raise(self, "ValueError")
         ELSE index_project_next(index_module(self, target_path, NoStr, 1), <<>>, 0)
    ELSE IF os_path_isdir(self.sc, target_path)
    THEN index_project_loop(self, walk, 1)
    ELSE Return(self, None)

(***************************************************************************)
(* GreenTypeAnalyzer.index_builtins                                        *)
(***************************************************************************)
\* the classes that inspect finds in the modules of config['BUILTINS'], as
\* ClassDef(module_name + '.' + __qualname__, None, None, names of
\* __bases__, set(vars(cls))): of the interpreter's classes, object and dict
BuiltinClasses ==
    <<ClassDef(BUILTINS_NAME \o ".object", None, <<>>, {"__doc__", "__init__", "__eq__"},
               <<0, 1>>),
      ClassDef(BUILTINS_NAME \o ".dict", None, <<"object">>, {"__doc__", "__init__", "keys"},
               <<0, 2>>)>>

RECURSIVE index_builtins_loop(_, _)
\* self.register_class(ClassDef(...)) for the classes from number i on
index_builtins_loop(self, i) ==
    IF i > Len(BuiltinClasses) THEN Return(self, None)
    ELSE index_builtins_loop(register_class(self, BuiltinClasses[i]).self, i + 1)

index_builtins(self) == index_builtins_loop(self, 1)

(***************************************************************************)
(* GreenTypeAnalyzer.resolve_name                                          *)
(***************************************************************************)
\* the index for a definition type, or the ValueError for an unknown one
index_of(self, type) ==
    CASE type = "class" -> self.CLASS_INDEX
      [] type = "function" -> self.FUNCTION_INDEX
      [] type = "module" -> self.MODULE_INDEX

\* check_loaded(qname) inside resolve_name
check_loaded(self, type, qname) ==
    LET get(index) == IF qname \in DOMAIN index THEN index[qname] ELSE None
    IN get(index_of(self, type))

\* the arguments (name, module, type) as a dict key: a module counts by its qname
resolve_name_key(name, module, type) ==
    <<name, IF module = None THEN <<"None">> ELSE <<"module", module.qname>>, type>>

RECURSIVE resolve_name(_, _, _, _, _)
RECURSIVE resolve_name_imports(_, _, _, _, _, _)
RECURSIVE resolve_in_loaded(_, _, _, _, _, _)

\* a variant of import_attempts that tries nothing for a star import
import_attempts_no_star(imp, name, qname) ==
    IF imports_name(imp, name)
    THEN IF ~imp.import_from
         THEN <<<<imp.imported_name, qname_drop(name, imp.local_name)>>>>
         ELSE <<<<qname_tail(imp.imported_name),
                  qname_drop(qname, qname_tail(imp.imported_name))>>,
                <<imp.imported_name, qname_drop(name, imp.local_name)>>>>
    ELSE <<>>

\* a variant of import_attempts that reads "from package import module" as the
\* import of a name only
import_attempts_no_fallback(imp, name, qname) ==
    IF imports_name(imp, name)
    THEN IF ~imp.import_from
         THEN <<<<imp.imported_name, qname_drop(name, imp.local_name)>>>>
         ELSE <<<<qname_tail(imp.imported_name),
                  qname_drop(qname, qname_tail(imp.imported_name))>>>>
    ELSE IF imp.star_import THEN <<<<imp.imported_name, name>>>>
    ELSE <<>>

\* What one import makes resolve_name try, in order, as pairs <<module to
\* index, name to resolve in it>>:
\*   import some.module [as alias]    some.module, the name without the alias
\*   from some.module import Base     some.module, then some.module.Base as a module
\*   from some.module import *        some.module, the name itself
import_attempts(imp, name, qname) ==
    IF imports_name(imp, name)
    THEN IF ~imp.import_from
         THEN <<<<imp.imported_name, qname_drop(name, imp.local_name)>>>>
         ELSE <<<<qname_tail(imp.imported_name),
                  qname_drop(qname, qname_tail(imp.imported_name))>>,
                <<imp.imported_name, qname_drop(name, imp.local_name)>>>>
    ELSE IF imp.star_import THEN <<<<imp.imported_name, name>>>>
    ELSE <<>>

\* if df: return df -- else the next attempt
resolve_in_loaded_next(df, module, attempts, k, type, depth) ==
    IF df.exc # "" \/ Truthy(df.ret) THEN df
    ELSE resolve_in_loaded(df.self, module, attempts, k + 1, type, depth)

\* if module_loaded and module_loaded is not module:
\*     df = self.resolve_name(top_level_name, module_loaded, type)
resolve_in_module(module_loaded, module, top_level_name, type, depth) ==
    IF module_loaded.exc # "" THEN module_loaded
    ELSE IF Truthy(module_loaded.ret) /\ module_loaded.ret # module
    THEN resolve_name(module_loaded.self, top_level_name, module_loaded.ret, type, depth)
    ELSE Return(module_loaded.self, None)

\* module_loaded = self.index_module(name=...) and the lookup in it, for the
\* attempts from number k on; ret is None when none of them returns
resolve_in_loaded(self, module, attempts, k, type, depth) ==
    IF k > Len(attempts) THEN Return(self, None)
    ELSE resolve_in_loaded_next(
             resolve_in_module(index_module(self, NoStr, attempts[k][1], depth),
                               module, attempts[k][2], type, depth),
             module, attempts, k, type, depth)

\* the next import of the loop, unless this one returned a definition or raised
resolve_name_imports_next(df, name, module, type, i, depth) ==
    IF df.exc # "" \/ Truthy(df.ret) THEN df
    ELSE resolve_name_imports(df.self, name, module, type, i + 1, depth)

\* a variant of imported_qname that leaves the local name in place
imported_qname_merged(imp, name) ==
    IF imports_name(imp, name) THEN qname_merge(imp.local_name, name) ELSE NoStr

\* qname = utils.qname_merge(imp.local_name, name).replace(imp.local_name,
\*                                                          imp.imported_name, 1)
\* for an import that imports the name, NoStr for one that does not
imported_qname(imp, name) ==
    IF imports_name(imp, name)
    THEN Replace1(qname_merge(imp.local_name, name), imp.local_name, imp.imported_name)
    ELSE NoStr

\* df = check_loaded(qname); if df: return df -- else the import's modules are indexed
resolve_name_import(self, name, module, type, imp, qname, depth) ==
    IF qname # NoStr /\ Truthy(check_loaded(self, type, qname))
    THEN Return(self, check_loaded(self, type, qname))
    ELSE resolve_in_loaded(self, module, import_attempts(imp, name, qname), 1, type, depth)

\* a variant of resolve_name_imports that goes through the imports of the
\* module from the last one to the first
resolve_name_imports_reversed(self, name, module, type, i, depth) ==
    IF i > Len(module.imports) THEN Return(self, None)
    ELSE resolve_name_imports_next(
             resolve_name_import(self, name, module, type,
                                 module.imports[Len(module.imports) + 1 - i],
                                 imported_qname(module.imports[Len(module.imports) + 1 - i], name),
                                 depth),
             name, module, type, i, depth)

\* "for imp in module.imports", from import number i on
resolve_name_imports(self, name, module, type, i, depth) ==
    IF i > Len(module.imports) THEN Return(self, None)
    ELSE resolve_name_imports_next(
             resolve_name_import(self, name, module, type, module.imports[i],
                                 imported_qname(module.imports[i], name), depth),
             name, module, type, i, depth)

\* the first definition of a sequence of lookups that found one, else the rest
first_truthy(self, hits, rest) ==
    IF Len(hits) > 0 THEN Return(self, hits[1]) ELSE rest

\* df = check_loaded(...); if df: return df -- for the qnames in order, else the rest
first_loaded(self, type, qnames, rest) ==
    first_truthy(self,
                 SelectSeq([k \in DOMAIN qnames |-> check_loaded(self, type, qnames[k])], Truthy),
                 rest)

\* the body of resolve_name
resolve_name_body(self, name, module, type, depth) ==
    IF depth > RecursionLimit THEN Raise(self, "RecursionError")
    ELSE IF type \notin {"class", "function", "module"} THEN Raise(self, "ValueError")
    ELSE first_loaded(self, type,
             <<name, BUILTINS_NAME \o "." \o name>>
               \o (IF module = None THEN <<>> ELSE <<module.qname \o "." \o name>>),
             IF module = None THEN Return(self, None)
             ELSE resolve_name_imports(self, name, module, type, 1, depth + 1))

\* the call's mark is dropped when the call ends, whether it returns or raises
guard_leave(r, key) == [r EXCEPT !.self.in_progress = @ \ {key}]

\* @recursion_guard(None): a call whose arguments are those of a call in
\* progress returns None at once
recursion_guard(self, name, module, type, depth) ==
    IF resolve_name_key(name, module, type) \in self.in_progress
    THEN Return([self EXCEPT !.guarded = @ \cup {resolve_name_key(name, module, type)}], None)
    ELSE guard_leave(
             resolve_name_body(
                 [self EXCEPT !.in_progress = @ \cup {resolve_name_key(name, module, type)}],
                 name, module, type, depth),
             resolve_name_key(name, module, type))

\* a variant of memoized_store that keeps a result already stored under the key
memoized_store_first(r, key) ==
    IF r.exc # "" THEN r
    ELSE Return([r.self EXCEPT !.resolve_name_results =
                                   IF key \in DOMAIN @ THEN @ ELSE Put(@, key, r.ret)], r.ret)

\* r = results[args] = f(*args)
memoized_store(r, key) ==
    IF r.exc # "" THEN r
    ELSE Return([r.self EXCEPT !.resolve_name_results = Put(@, key, r.ret)], r.ret)

\* a variant of resolve_name in which a nested call with the arguments of a
\* call in progress is not answered None: it goes round the cycle again until
\* the interpreter raises RecursionError
resolve_name_reentering(self, name, module, type, depth) ==
    IF resolve_name_key(name, module, type) \in DOMAIN self.resolve_name_results
    THEN Return(self, self.resolve_name_results[resolve_name_key(name, module, type)])
    ELSE IF resolve_name_key(name, module, type) \in self.in_progress
    THEN Raise(self, "RecursionError")
    ELSE memoized_store(recursion_guard(self, name, module, type, depth),
                        resolve_name_key(name, module, type))

\* @memoized: the result of the call is stored under its arguments when it returns
resolve_name(self, name, module, type, depth) ==
    IF resolve_name_key(name, module, type) \in DOMAIN self.resolve_name_results
    THEN Return(self, self.resolve_name_results[resolve_name_key(name, module, type)])
    ELSE memoized_store(recursion_guard(self, name, module, type, depth),
                        resolve_name_key(name, module, type))

(***************************************************************************)
(* GreenTypeAnalyzer._resolve_bases                                        *)
(***************************************************************************)
RECURSIVE resolve_bases(_, _, _)
RECURSIVE resolve_bases_loop(_, _, _, _, _)

\* bases.add(base_def); bases.update(self._resolve_bases(base_def))
bases_update(inherited, class_def, i, bases, base_def, depth) ==
    IF inherited.exc # "" THEN inherited
    ELSE resolve_bases_loop(inherited.self, class_def, i + 1,
                            PySetUnion(PySetAdd(bases, base_def), inherited.ret), depth)

\* if base_def: ... -- a base that does not resolve adds nothing
bases_resolved(base_def, class_def, i, bases, depth) ==
    IF base_def.exc # "" THEN base_def
    ELSE IF ~Truthy(base_def.ret)
    THEN resolve_bases_loop(base_def.self, class_def, i + 1, bases, depth)
    ELSE bases_update(resolve_bases(base_def.self, base_def.ret, depth),
                      class_def, i, bases, base_def.ret, depth)

\* "for name in class_def.bases", from base number i on, with the set built so far
resolve_bases_loop(self, class_def, i, bases, depth) ==
    IF i > Len(class_def.bases) THEN Return(self, bases)
    ELSE IF class_def.bases[i] = Definition_name(class_def)
    THEN resolve_bases_loop(self, class_def, i + 1, bases, depth)
    ELSE bases_resolved(resolve_name(self, class_def.bases[i], class_def.module, "class", depth),
                        class_def, i, bases, depth)

\* r = results[args] = f(*args), the class counting by its qname
resolve_bases_store(r, class_def) ==
    IF r.exc # "" THEN r
    ELSE Return([r.self EXCEPT !.resolve_bases_results = Put(@, class_def.qname, r.ret)], r.ret)

\* @memoized _resolve_bases: the result is stored under the class when the call returns
resolve_bases(self, class_def, depth) ==
    IF class_def.qname \in DOMAIN self.resolve_bases_results
    THEN Return(self, self.resolve_bases_results[class_def.qname])
    ELSE IF depth > RecursionLimit THEN Raise(self, "RecursionError")
    ELSE resolve_bases_store(resolve_bases_loop(self, class_def, 1, {}, depth + 1), class_def)


(***************************************************************************)
(* GreenTypeAnalyzer.suggest_classes and infer_parameter_types             *)
(*                                                                         *)
(* Python iterates a set, and pops from it, in an order the program does   *)
(* not control.  Every such iteration takes its order from the sequence    *)
(* "order" (of attribute names and qnames), which the caller may choose    *)
(* freely: smaller position first.                                         *)
(***************************************************************************)
Position(order, k) ==
    IF \E i \in DOMAIN order : order[i] = k
    THEN CHOOSE i \in DOMAIN order : order[i] = k /\ \A j \in DOMAIN order : order[j] = k => i <= j
    ELSE Len(order) + 1

\* the first string of a non-empty set of strings
FirstStr(strs, order) ==
    CHOOSE a \in strs : \A b \in strs : Position(order, a) <= Position(order, b)

\* the first definition of a non-empty set of definitions
FirstDef(defs, order) ==
    CHOOSE a \in defs : \A b \in defs : Position(order, a.qname) <= Position(order, b.qname)

\* a variant of unite_index that takes every indexed class for a candidate
unite_all(self, attrs, order, acc) == {self.CLASS_INDEX[q] : q \in DOMAIN self.CLASS_INDEX}

RECURSIVE unite_index(_, _, _, _)
\* unite(index[attr] for attr in accessed_attrs)
unite_index(self, attrs, order, acc) ==
    IF attrs = {} THEN acc
    ELSE unite_index(self, attrs \ {FirstStr(attrs, order)}, order,
                     PySetUnion(acc, attribute_classes(self, FirstStr(attrs, order))))

\* a variant of touch_index in which the sets of the accessed attributes are
\* united in place, so that each of them lists the classes of all of them
touch_index_united(index, attrs) ==
    [a \in DOMAIN index \cup attrs |->
       IF a \in attrs THEN UNION {index[b] : b \in attrs \cap DOMAIN index} ELSE index[a]]

\* index[attr] on the defaultdict leaves an empty set under every attribute it had not
touch_index(index, attrs) ==
    [a \in DOMAIN index \cup attrs |-> IF a \in DOMAIN index THEN index[a] ELSE {}]

RECURSIVE suggest_prune(_, _, _, _, _)
\* if any(base in suitable for base in self._resolve_bases(cls)): suitable.remove(cls)
prune_subclass(bases, suitable, todo, cls, order, depth) ==
    IF bases.exc # "" THEN bases
    ELSE suggest_prune(bases.self,
                       IF \E base \in bases.ret : PyIn(base, suitable)
                       THEN PySetRemove(suitable, cls) ELSE suitable,
                       todo \ {cls}, order, depth)

\* a variant of suggest_prune that removes no subclass
suggest_prune_none(self, suitable, todo, order, depth) == Return(self, suitable)

\* "for cls in suitable.copy()": todo is what is left of the copy
suggest_prune(self, suitable, todo, order, depth) ==
    IF todo = {} THEN Return(self, suitable)
    ELSE prune_subclass(resolve_bases(self, FirstDef(todo, order), depth),
                        suitable, todo, FirstDef(todo, order), order, depth)

\* a variant of is_suitable that is content with one accessed attribute
is_suitable_any(accessed_attrs, available_attrs) == accessed_attrs \cap available_attrs # {}

\* accessed_attrs <= available_attrs
is_suitable(accessed_attrs, available_attrs) == accessed_attrs \subseteq available_attrs

\* unite(b.attributes for b in bases) | candidate.attributes
available_attrs(candidate, bases) ==
    UNION {b.attributes : b \in bases} \cup candidate.attributes

\* a variant of discovered_bases that adds no base to the candidates
discovered_bases_none(self, bases, checked, accessed_attrs) == {}

\* the bases added to candidates when FOLLOW_IMPORTS is off: those not yet
\* checked that have one of the accessed attributes
discovered_bases(self, bases, checked, accessed_attrs) ==
    IF self.FOLLOW_IMPORTS THEN {}
    ELSE {base \in bases : ~PyIn(base, checked) /\ base.attributes \cap accessed_attrs # {}}

RECURSIVE suggest_loop(_, _, _, _, _, _, _)
\* a variant of check_candidate that returns the first suitable candidate alone
check_candidate_first(bases, accessed_attrs, candidates, suitable, checked, candidate, order, depth) ==
    IF bases.exc # "" THEN bases
    ELSE IF is_suitable(accessed_attrs, available_attrs(candidate, bases.ret))
    THEN Return(bases.self, {candidate})
    ELSE suggest_loop(bases.self, accessed_attrs,
                      PySetUnion(candidates \ {candidate},
                                 discovered_bases(bases.self, bases.ret, checked, accessed_attrs)),
                      suitable, checked, order, depth)

\* the body of the loop after bases = self._resolve_bases(candidate)
check_candidate(bases, accessed_attrs, candidates, suitable, checked, candidate, order, depth) ==
    IF bases.exc # "" THEN bases
    ELSE suggest_loop(bases.self, accessed_attrs,
                      PySetUnion(candidates \ {candidate},
                                 discovered_bases(bases.self, bases.ret, checked, accessed_attrs)),
                      IF is_suitable(accessed_attrs, available_attrs(candidate, bases.ret))
                      THEN PySetAdd(suitable, candidate) ELSE suitable,
                      checked, order, depth)

\* "while candidates", and the pruning of subclasses after it
suggest_loop(self, accessed_attrs, candidates, suitable, checked, order, depth) ==
    IF candidates = {} THEN suggest_prune(self, suitable, suitable, order, depth)
    ELSE check_candidate(resolve_bases(self, FirstDef(candidates, order), depth),
                         accessed_attrs, candidates, suitable,
                         PySetAdd(checked, FirstDef(candidates, order)),
                         FirstDef(candidates, order), order, depth)

suggest_classes(self, accessed_attrs, order, depth) ==
    suggest_loop([self EXCEPT !.CLASS_ATTRIBUTE_INDEX = touch_index(@, accessed_attrs)],
                 accessed_attrs, unite_index(self, accessed_attrs, order, {}), {}, {},
                 order, depth)

\* the property project_parameters
project_parameters(self) ==
    {self.PARAMETER_INDEX[q] : q \in
       {k \in DOMAIN self.PARAMETER_INDEX :
          /\ self.PARAMETER_INDEX[k].module # None
          /\ is_inside_project(self.sc, self.PARAMETER_INDEX[k].module.path)}}

RECURSIVE infer_loop(_, _, _, _)
\* param.suggested_types = self.suggest_classes(param.attributes)
infer_assign(types, todo, param, order, depth) ==
    IF types.exc # "" THEN types
    ELSE infer_loop([types.self EXCEPT !.suggested_types = Put(@, param, types.ret)],
                    todo \ {param}, order, depth)

\* if param.attributes: ...
infer_param(self, todo, param, order, depth) ==
    IF param.attributes = {} THEN infer_loop(self, todo \ {param}, order, depth)
    ELSE infer_assign(suggest_classes(self, param.attributes, order, depth),
                      todo, param, order, depth)

\* "for param in self.project_parameters": todo is what is left of the list
infer_loop(self, todo, order, depth) ==
    IF todo = {} THEN Return(self, None)
    ELSE infer_param(self, todo, FirstDef(todo, order), order, depth)

infer_parameter_types(self, order, depth) ==
    infer_loop(self, project_parameters(self), order, depth)

\* param.suggested_types, set() until infer_parameter_types assigns it
suggested_types_of(self, param) ==
    IF param \in DOMAIN self.suggested_types THEN self.suggested_types[param] ELSE {}




(***************************************************************************)
(* The state: one analyzer, constructed on one of the projects.            *)
(***************************************************************************)
VARIABLES
    scenario,               \* the project the analyzer was constructed on
    FOLLOW_IMPORTS,         \* config['FOLLOW_IMPORTS']
    MODULE_INDEX,           \* indexes['MODULE_INDEX']: qname -> ModuleDef
    CLASS_INDEX,            \* indexes['CLASS_INDEX']: qname -> ClassDef
    FUNCTION_INDEX,         \* indexes['FUNCTION_INDEX']: qname -> FunctionDef
    PARAMETER_INDEX,        \* indexes['PARAMETER_INDEX']: qname -> ParameterDef
    CLASS_ATTRIBUTE_INDEX,  \* indexes['CLASS_ATTRIBUTE_INDEX']: attribute -> set of ClassDef
    broken_modules,         \* _broken_modules
    resolve_name_results,   \* the dict "results" of the memoized resolve_name
    resolve_bases_results,  \* the dict "results" of the memoized _resolve_bases
    suggested_types,        \* ParameterDef -> its suggested_types, once assigned
    indexer_runs,           \* how many SourceModuleIndexer objects have run
    parsed,                 \* path -> how many times ast.parse was called on the file
    last                    \* the last call made on the analyzer: its arguments, what was
                            \* indexed and memoized before it, and how it ended

vars == <<scenario, FOLLOW_IMPORTS, MODULE_INDEX, CLASS_INDEX, FUNCTION_INDEX, PARAMETER_INDEX,
          CLASS_ATTRIBUTE_INDEX, broken_modules, resolve_name_results, resolve_bases_results,
          suggested_types, indexer_runs, parsed, last>>

indexes == <<MODULE_INDEX, CLASS_INDEX, FUNCTION_INDEX, PARAMETER_INDEX, CLASS_ATTRIBUTE_INDEX>>

\* the analyzer object, between two calls
Self ==
    [sc |-> scenario, FOLLOW_IMPORTS |-> FOLLOW_IMPORTS, MODULE_INDEX |-> MODULE_INDEX,
     CLASS_INDEX |-> CLASS_INDEX, FUNCTION_INDEX |-> FUNCTION_INDEX,
     PARAMETER_INDEX |-> PARAMETER_INDEX, CLASS_ATTRIBUTE_INDEX |-> CLASS_ATTRIBUTE_INDEX,
     broken_modules |-> broken_modules, resolve_name_results |-> resolve_name_results,
     resolve_bases_results |-> resolve_bases_results, suggested_types |-> suggested_types,
     indexer_runs |-> indexer_runs, parsed |-> parsed, in_progress |-> {}, guarded |-> {}]

\* the analyzer as a call leaves it
Becomes(self) ==
    /\ MODULE_INDEX' = self.MODULE_INDEX
    /\ CLASS_INDEX' = self.CLASS_INDEX
    /\ FUNCTION_INDEX' = self.FUNCTION_INDEX
    /\ PARAMETER_INDEX' = self.PARAMETER_INDEX
    /\ CLASS_ATTRIBUTE_INDEX' = self.CLASS_ATTRIBUTE_INDEX
    /\ broken_modules' = self.broken_modules
    /\ resolve_name_results' = self.resolve_name_results
    /\ resolve_bases_results' = self.resolve_bases_results
    /\ suggested_types' = self.suggested_types
    /\ indexer_runs' = self.indexer_runs
    /\ parsed' = self.parsed
    /\ UNCHANGED <<scenario, FOLLOW_IMPORTS>>

\* The number of SourceModuleIndexer runs after which no further call is made.
MaxIndexerRuns == 8

\* what is indexed and memoized when a call is made
Before ==
    [MODULE_INDEX |-> DOMAIN MODULE_INDEX, CLASS_INDEX |-> DOMAIN CLASS_INDEX,
     resolve_name_results |-> DOMAIN resolve_name_results]

\* a call of a method of the analyzer, ending as r says
Called(op, args, r) ==
    /\ r.self.indexer_runs <= MaxIndexerRuns
    /\ Becomes(r.self)
    /\ last' = [op |-> op, args |-> args, before |-> Before, ret |-> r.ret, exc |-> r.exc,
                guarded |-> r.self.guarded]

\* GreenTypeAnalyzer.__init__ (Python 3: PY2_FAKE_OBJECT is not registered)
Init ==
    /\ scenario \in Scenarios
    /\ FOLLOW_IMPORTS \in BOOLEAN
    /\ MODULE_INDEX = <<>>
    /\ CLASS_INDEX = <<>>
    /\ FUNCTION_INDEX = <<>>
    /\ PARAMETER_INDEX = <<>>
    /\ CLASS_ATTRIBUTE_INDEX = <<>>
    /\ broken_modules = {}
    /\ resolve_name_results = <<>>
    /\ resolve_bases_results = <<>>
    /\ suggested_types = <<>>
    /\ indexer_runs = 0
    /\ parsed = <<>>
    /\ last = [op |-> "__init__", args |-> <<>>, before |-> Before, ret |-> None, exc |-> "",
               guarded |-> {}]

\* analyzer.index_builtins(), which main() calls on the analyzer it has just
\* constructed when config['ANALYZE_BUILTINS'] is set
IndexBuiltins ==
    /\ last.op = "__init__"
    /\ ProjectConfig(scenario).ANALYZE_BUILTINS
    /\ Called("index_builtins", <<>>, index_builtins(Self))

\* analyzer.index_project(), which main() and the tests call on the analyzer
\* they have just constructed, or on which they have just indexed the builtins
IndexProject ==
    /\ last.op \in {"__init__", "index_builtins"}
    /\ \E target_path \in TargetPaths(scenario) :
         \E walk \in os_walk(scenario, target_path) :
            Called("index_project", [target_path |-> target_path, walk |-> walk],
                   index_project(Self, target_path, walk))

\* analyzer.index_module(path=path)
IndexModuleByPath ==
    \E path \in Paths(scenario) :
        Called("index_module", [path |-> path, name |-> NoStr],
               index_module(Self, path, NoStr, 0))

\* analyzer.index_module(name=name)
IndexModuleByName ==
    \E name \in ModuleNames(scenario) :
        Called("index_module", [path |-> NoStr, name |-> name],
               index_module(Self, NoStr, name, 0))

\* analyzer.resolve_name(name, module, 'class'), for a reference of an indexed module
ResolveName ==
    \E ref \in References(scenario) :
        /\ ref[2] \in DOMAIN MODULE_INDEX
        /\ Called("resolve_name",
                  [name |-> ref[1], module |-> MODULE_INDEX[ref[2]], type |-> "class"],
                  resolve_name(Self, ref[1], MODULE_INDEX[ref[2]], "class", 0))

\* analyzer._resolve_bases(class_def), for an indexed class
ResolveBases ==
    \E q \in DOMAIN CLASS_INDEX :
        Called("_resolve_bases", [class_def |-> CLASS_INDEX[q]],
               resolve_bases(Self, CLASS_INDEX[q], 0))

\* analyzer.suggest_classes(accessed_attrs)
SuggestClasses ==
    \E accessed_attrs \in AttributeSets(scenario), order \in Orders(scenario) :
        Called("suggest_classes", [accessed_attrs |-> accessed_attrs],
               suggest_classes(Self, accessed_attrs, order, 0))

\* analyzer.infer_parameter_types()
InferParameterTypes ==
    \E order \in Orders(scenario) :
        Called("infer_parameter_types", <<>>, infer_parameter_types(Self, order, 0))

Next ==
    \/ IndexBuiltins
    \/ IndexProject
    \/ IndexModuleByPath
    \/ IndexModuleByName
    \/ ResolveName
    \/ ResolveBases
    \/ SuggestClasses
    \/ InferParameterTypes

Spec == Init /\ [][Next]_vars

(***************************************************************************)
(* An analyzer that is used again after invalidate_indexes(): the indexes  *)
(* are emptied, modules are indexed anew, and names and bases are resolved *)
(* on it.                                                                  *)
(***************************************************************************)
\* for index in self.indexes.values(): index.clear() -- nothing else of the
\* analyzer is touched: _broken_modules and the results of the memoized
\* resolve_name and _resolve_bases stay
invalidate_indexes(self) ==
    Return([self EXCEPT !.MODULE_INDEX = <<>>, !.CLASS_INDEX = <<>>, !.FUNCTION_INDEX = <<>>,
                        !.PARAMETER_INDEX = <<>>, !.CLASS_ATTRIBUTE_INDEX = <<>>], None)

\* analyzer.invalidate_indexes(), at the end of a run: the analyzer has
\* indexed modules and has just resolved a name or the bases of a class
InvalidateIndexes ==
    /\ DOMAIN MODULE_INDEX # {}
    /\ last.op \in {"resolve_name", "_resolve_bases"}
    /\ Called("invalidate_indexes", <<>>, invalidate_indexes(Self))

\* the projects on which an analyzer is used again
ResetScenarios == {"inheritance", "following", "recursive"}

ResetInit == Init /\ scenario \in ResetScenarios

ResetNext ==
    \/ InvalidateIndexes
    \/ IndexProject
    \/ IndexModuleByPath
    \/ IndexModuleByName
    \/ ResolveName
    \/ ResolveBases

ResetSpec == ResetInit /\ [][ResetNext]_vars

(***************************************************************************)
(* greentype/utils/strings.py called on its own: the two arguments are     *)
(* drawn when the state is set up, and qname_merge and qname_drop are      *)
(* applied to them.                                                        *)
(***************************************************************************)
\* the dotted names, and the empty string, that the functions are given
QNames ==
    {"", "foo", "bar", "fo", "foo.bar", "foo.baz", "foo.bar.baz", "baz.quux", "baz.bar",
     "bar.baz.quux", "ar.baz", "foobar.baz"}

StringsInit ==
    /\ scenario = "twice"
    /\ FOLLOW_IMPORTS = FALSE
    /\ MODULE_INDEX = <<>>
    /\ CLASS_INDEX = <<>>
    /\ FUNCTION_INDEX = <<>>
    /\ PARAMETER_INDEX = <<>>
    /\ CLASS_ATTRIBUTE_INDEX = <<>>
    /\ broken_modules = {}
    /\ resolve_name_results = <<>>
    /\ resolve_bases_results = <<>>
    /\ suggested_types = <<>>
    /\ indexer_runs = 0
    /\ parsed = <<>>
    /\ \E n1, n2 \in QNames :
          last = [op |-> "", args |-> <<n1, n2>>, before |-> Before, ret |-> "", exc |-> "",
                  guarded |-> {}]

\* a call of a function of utils/strings.py: the analyzer is not involved
StringsCalled(op, ret) ==
    /\ last' = [last EXCEPT !.op = op, !.ret = ret]
    /\ UNCHANGED <<scenario, FOLLOW_IMPORTS, indexes, broken_modules, resolve_name_results,
                   resolve_bases_results, suggested_types, indexer_runs, parsed>>

\* utils.qname_merge(n1, n2)
QnameMerge == StringsCalled("qname_merge", qname_merge(last.args[1], last.args[2]))

\* utils.qname_drop(name, qualifier)
QnameDrop == StringsCalled("qname_drop", qname_drop(last.args[1], last.args[2]))

StringsNext == QnameMerge \/ QnameDrop

StringsSpec == StringsInit /\ [][StringsNext]_vars

(***************************************************************************)
(* Properties                                                              *)
(***************************************************************************)
\* the bases of an indexed class, as _resolve_bases gives them to the next caller
bases_of(class_def) == resolve_bases(Self, class_def, 0)

\* C1: the set suggest_classes returns holds no two classes of which one is
\* among the resolved bases of the other
PruningInvariant ==
    (last.op = "suggest_classes" /\ last.exc = "") =>
        \A M1 \in last.ret : \A M2 \in last.ret :
            bases_of(M1).exc = "" /\ ~PyIn(M2, bases_of(M1).ret)

\* suggest_classes returned, and left out a class that has every accessed
\* attribute because one of its bases is in the result
PruningWitness ==
    /\ last.op = "suggest_classes" /\ last.exc = "" /\ last.ret # {}
    /\ \E q \in DOMAIN CLASS_INDEX :
          /\ bases_of(CLASS_INDEX[q]).exc = ""
          /\ is_suitable(last.args.accessed_attrs,
                         available_attrs(CLASS_INDEX[q], bases_of(CLASS_INDEX[q]).ret))
          /\ ~PyIn(CLASS_INDEX[q], last.ret)
          /\ \E base \in bases_of(CLASS_INDEX[q]).ret : PyIn(base, last.ret)

\* C2: for a non-empty set of accessed attributes, every class that
\* suggest_classes returns has each of them, itself or through a resolved base
SuggestionSound ==
    (last.op = "suggest_classes" /\ last.exc = "" /\ last.args.accessed_attrs # {}) =>
        \A M \in last.ret :
            /\ bases_of(M).exc = ""
            /\ last.args.accessed_attrs \subseteq
                 (M.attributes \cup UNION {b.attributes : b \in bases_of(M).ret})

\* suggest_classes returned a class that has one of the accessed attributes
\* only through a base
SuggestionSoundWitness ==
    /\ last.op = "suggest_classes" /\ last.exc = "" /\ last.args.accessed_attrs # {}
    /\ \E M \in last.ret : ~(last.args.accessed_attrs \subseteq M.attributes)

\* C3, as the specification states it: _resolve_bases returns for every indexed
\* class, and what it returns does not hold the class itself
ResolveBasesTerminates ==
    last.op = "_resolve_bases" => (last.exc = "" /\ ~PyIn(last.args.class_def, last.ret))

\* C4: suggest_classes on no attributes returns the empty set, and a project
\* parameter with no accessed attribute never has a suggested type
EmptyAttributesNoSuggestion ==
    /\ (last.op = "suggest_classes" /\ last.args.accessed_attrs = {}) =>
           (last.exc = "" /\ last.ret = {})
    /\ \A param \in project_parameters(Self) :
           param.attributes = {} => suggested_types_of(Self, param) = {}

\* infer_parameter_types returned, having given a suggested type to a parameter
\* of a function one of whose parameters has no accessed attribute
EmptyAttributesWitness ==
    /\ last.op = "infer_parameter_types" /\ last.exc = ""
    /\ \E unused \in project_parameters(Self) : \E used \in project_parameters(Self) :
          /\ unused.attributes = {}
          /\ suggested_types_of(Self, unused) = {}
          /\ suggested_types_of(Self, used) # {}

\* the qname of the module a call of index_module is about, NoStr when the
\* path given is of no module
called_module(args) ==
    IF args.name # NoStr THEN args.name
    ELSE IF path_to_module_name(scenario, args.path).ok
    THEN path_to_module_name(scenario, args.path).value
    ELSE NoStr

\* C5: a call of index_module for a module that is indexed already, by path or
\* by name, returns the ModuleDef object of the index and changes none of the
\* five indexes
IdempotentLoading ==
    [][(last'.op = "index_module" /\ called_module(last'.args) \in DOMAIN MODULE_INDEX) =>
         /\ last'.exc = ""
         /\ last'.ret = MODULE_INDEX[called_module(last'.args)]
         /\ indexes' = indexes]_vars

\* index_module was called by name for a module that had been indexed, and
\* returned the indexed object
IdempotentLoadingWitness ==
    /\ last.op = "index_module" /\ last.exc = "" /\ last.args.name # NoStr
    /\ last.args.name \in last.before.MODULE_INDEX
    /\ last.ret = MODULE_INDEX[last.args.name]
    /\ DOMAIN CLASS_INDEX # {}

\* the module was indexed with the import imp among its imports
HasImport(module, imp) ==
    module # None /\ \E i \in DOMAIN module.imports : module.imports[i] = imp

\* resolve_name was called for the class called name in a module that has the import
Resolving(name, imp) ==
    /\ last.op = "resolve_name" /\ last.args.type = "class"
    /\ last.args.name = name /\ HasImport(last.args.module, imp)

\* the call returned the class indexed under qname
ResolvedTo(qname) ==
    /\ last.exc = "" /\ last.ret # None
    /\ last.ret.kind = "class" /\ last.ret.qname = qname
    /\ qname \in DOMAIN CLASS_INDEX /\ last.ret = CLASS_INDEX[qname]

\* When resolve_name was called no class was indexed under the name as it
\* stands, under the name as a builtin, or under the name as one of the module:
\* the lookups resolve_name makes before it turns to the imports found nothing.
NotIndexedBefore ==
    {last.args.name, BUILTINS_NAME \o "." \o last.args.name,
     last.args.module.qname \o "." \o last.args.name} \cap last.before.CLASS_INDEX = {}

\* C6, as the specification states it: with "import p.m as m" in the module,
\* resolve_name('m.B', module, 'class') returns the class p.m.B
PlainImportAlways ==
    Resolving("m.B", Import("p.m", "m", FALSE, FALSE)) => ResolvedTo("p.m.B")

\* C6: with "import p.m as m" in the module, resolve_name('m.B', module,
\* 'class') returns the class p.m.B, whether p.m was indexed or not, provided
\* no class is indexed under 'm.B', 'builtins.m.B' or '<module>.m.B' at the call
PlainImportResolves ==
    (Resolving("m.B", Import("p.m", "m", FALSE, FALSE)) /\ NotIndexedBefore)
        => ResolvedTo("p.m.B")

\* 'm.B' was resolved to p.m.B by a call that found p.m not indexed
PlainImportWitness ==
    /\ Resolving("m.B", Import("p.m", "m", FALSE, FALSE)) /\ NotIndexedBefore
    /\ "p.m" \notin last.before.MODULE_INDEX
    /\ ResolvedTo("p.m.B")

\* C7, as the specification states it: with "from p.m import B as Alias" in
\* the module, resolve_name('Alias', module, 'class') returns the class p.m.B
ImportNameAlways ==
    Resolving("Alias", Import("p.m.B", "Alias", TRUE, FALSE)) => ResolvedTo("p.m.B")

\* C7: with "from p.m import B as Alias" in the module, resolve_name('Alias',
\* module, 'class') returns the class p.m.B, whether p.m was indexed or not,
\* provided no class is indexed under 'Alias', 'builtins.Alias' or
\* '<module>.Alias' at the call
ImportNameResolves ==
    (Resolving("Alias", Import("p.m.B", "Alias", TRUE, FALSE)) /\ NotIndexedBefore)
        => ResolvedTo("p.m.B")

\* 'Alias' was resolved to p.m.B by a call that found p.m not indexed
ImportNameWitness ==
    /\ Resolving("Alias", Import("p.m.B", "Alias", TRUE, FALSE)) /\ NotIndexedBefore
    /\ "p.m" \notin last.before.MODULE_INDEX
    /\ ResolvedTo("p.m.B")

\* C8, as the specification states it: with "from pkg import *" in the module
\* and "from .sibling import B" in pkg, resolve_name('B', module, 'class')
\* returns the class pkg.sibling.B
ImportStarAlways ==
    Resolving("B", Import("pkg", NoStr, TRUE, TRUE)) => ResolvedTo("pkg.sibling.B")

\* C8: with "from pkg import *" in the module and "from .sibling import B" in
\* pkg, resolve_name('B', module, 'class') returns the class pkg.sibling.B,
\* indexing pkg and pkg.sibling if they are not, provided no class is indexed
\* under 'B', 'builtins.B' or '<module>.B' at the call
ImportStarResolves ==
    (Resolving("B", Import("pkg", NoStr, TRUE, TRUE)) /\ NotIndexedBefore)
        => ResolvedTo("pkg.sibling.B")

\* 'B' was resolved to pkg.sibling.B by a call that found neither pkg nor
\* pkg.sibling indexed
ImportStarWitness ==
    /\ Resolving("B", Import("pkg", NoStr, TRUE, TRUE)) /\ NotIndexedBefore
    /\ {"pkg", "pkg.sibling"} \cap last.before.MODULE_INDEX = {}
    /\ ResolvedTo("pkg.sibling.B")

\* C9, as the specification states it: with "from pkg import mod as alias" in
\* the module, resolve_name returns pkg.mod.B for 'alias.B' and, through the
\* import "from pkg.sib import A" of pkg.mod, pkg.sib.A for 'alias.A'
ImportModuleAlways ==
    /\ Resolving("alias.B", Import("pkg.mod", "alias", TRUE, FALSE)) => ResolvedTo("pkg.mod.B")
    /\ Resolving("alias.A", Import("pkg.mod", "alias", TRUE, FALSE)) => ResolvedTo("pkg.sib.A")

\* C9: with "from pkg import mod as alias" in the module, resolve_name returns
\* pkg.mod.B for 'alias.B' and pkg.sib.A for 'alias.A', though pkg itself has
\* neither, provided no class is indexed under the name as it stands, as a
\* builtin or as a name of the module at the call
ImportModuleResolves ==
    /\ (Resolving("alias.B", Import("pkg.mod", "alias", TRUE, FALSE)) /\ NotIndexedBefore)
          => ResolvedTo("pkg.mod.B")
    /\ (Resolving("alias.A", Import("pkg.mod", "alias", TRUE, FALSE)) /\ NotIndexedBefore)
          => ResolvedTo("pkg.sib.A")

\* 'alias.A' was resolved to pkg.sib.A by a call that found pkg.mod not
\* indexed: pkg was indexed and had nothing, then pkg.mod, then pkg.sib
ImportModuleWitness ==
    /\ Resolving("alias.A", Import("pkg.mod", "alias", TRUE, FALSE)) /\ NotIndexedBefore
    /\ {"pkg", "pkg.mod", "pkg.sib"} \cap last.before.MODULE_INDEX = {}
    /\ {"pkg", "pkg.mod", "pkg.sib"} \subseteq DOMAIN MODULE_INDEX
    /\ ResolvedTo("pkg.sib.A")

\* C10, as the specification states it: the class indexed under a qname is in
\* CLASS_ATTRIBUTE_INDEX[a] for exactly the attributes a of its own, and no
\* other object of that qname is in any set of CLASS_ATTRIBUTE_INDEX
AttributeIndexInvariant ==
    \A q \in DOMAIN CLASS_INDEX :
        \A a \in DOMAIN CLASS_ATTRIBUTE_INDEX \cup CLASS_INDEX[q].attributes :
            /\ PyIn(CLASS_INDEX[q], attribute_classes(Self, a)) <=> a \in CLASS_INDEX[q].attributes
            /\ \A c \in attribute_classes(Self, a) : c.qname = q => c = CLASS_INDEX[q]

\* C11: within one analyzer run no file is parsed more than once, whichever
\* way the module is referenced and however the first attempt ended
ParsedAtMostOnce ==
    \A path \in DOMAIN parsed : parsed[path] <= 1

\* the file an index_module call is about, given by path or found by name
called_path(args) ==
    IF args.path # NoStr THEN args.path
    ELSE IF module_name_to_path(scenario, args.name).ok
    THEN module_name_to_path(scenario, args.name).value
    ELSE NoStr

\* the file has a from-import that module_discovered cannot place: no module
\* and no package, or a package directory outside every source root
HasMalformedImport(path) ==
    /\ path \in DOMAIN Files(scenario)
    /\ ~Files(scenario)[path].syntax_error
    /\ collect_imports(scenario, path, Files(scenario)[path].imports, 1, <<>>).exc # ""

\* C12: index_module on a module with such a from-import raises nothing,
\* returns no module and marks the module broken, and index_project goes on
\* to index the other files of the project
MalformedImportContained ==
    /\ (last.op = "index_module" /\ HasMalformedImport(called_path(last.args)))
          => /\ last.exc = ""
             /\ IsNone(last.ret)
             /\ called_path(last.args) \in broken_modules
    /\ last.op = "index_project"
          => /\ last.exc = ""
             /\ \A path \in DOMAIN Files(scenario) :
                   ~Files(scenario)[path].syntax_error /\ ~HasMalformedImport(path)
                     => \E q \in DOMAIN MODULE_INDEX : MODULE_INDEX[q].path = path

\* param.suggested_types of the parameters now indexed, by qname, once
\* infer_parameter_types has run on the analyzer as it is, the sets being
\* iterated and the parameters listed in the given order
inferred_types(order) ==
    LET inferred == infer_parameter_types(Self, order, 0).self
    IN [q \in DOMAIN PARAMETER_INDEX |->
          {c.qname : c \in suggested_types_of(inferred, inferred.PARAMETER_INDEX[q])}]

\* infer_parameter_types has no module left to load: run in any order, it
\* leaves MODULE_INDEX as it is
InferenceLoadsNothing ==
    \A order \in Orders(scenario) :
       DOMAIN infer_parameter_types(Self, order, 0).self.MODULE_INDEX = DOMAIN MODULE_INDEX

\* C13 as stated: on the same index, infer_parameter_types gives every
\* parameter the same suggested_types in whatever order it runs
InferenceOrderIndependent ==
    \A o1, o2 \in Orders(scenario) : inferred_types(o1) = inferred_types(o2)

\* C13: when inference has no module left to load, infer_parameter_types
\* gives every parameter the same suggested_types in whatever order it runs
InferenceOrderIndependentOnceLoaded ==
    InferenceLoadsNothing => InferenceOrderIndependent

\* two parameters of an indexed project have been given suggestions by
\* infer_parameter_types, and a second run in another order has nothing to load
InferenceOrderWitness ==
    /\ last.op = "infer_parameter_types"
    /\ last.exc = ""
    /\ InferenceLoadsNothing
    /\ Cardinality(Orders(scenario)) > 1
    /\ \E p1, p2 \in DOMAIN suggested_types :
          p1 # p2 /\ suggested_types[p1] # {} /\ suggested_types[p2] # {}

\* the analyzer once every file of the project has been indexed as well
all_indexed(self) ==
    index_project_loop(self, CHOOSE walk \in os_walk(self.sc, ProjectConfig(self.sc).PROJECT_ROOT) : TRUE,
                       1).self

\* the qnames of the classes a call returned
qnames_returned(r) == {c.qname : c \in r.ret}

\* C14: what suggest_classes returns on the index as it is, is a subset of
\* what it returns once all the modules of the project are indexed
SuggestionMonotone ==
    \A accessed_attrs \in AttributeSets(scenario), order \in Orders(scenario) :
       (/\ suggest_classes(Self, accessed_attrs, order, 0).exc = ""
        /\ suggest_classes(all_indexed(Self), accessed_attrs, order, 0).exc = "")
       => qnames_returned(suggest_classes(Self, accessed_attrs, order, 0))
            \subseteq qnames_returned(suggest_classes(all_indexed(Self), accessed_attrs, order, 0))

\* the ast.FunctionDef node an indexed FunctionDef was made from
node_of(func_def) == Files(scenario)[func_def.module.path].defs[func_def.oid[2]]

\* the function is defined directly in the body of a class, and is not
\* decorated with staticmethod
IsReceiverOmitted(func_def) ==
    /\ node_of(func_def).parent # 0
    /\ Files(scenario)[func_def.module.path].defs[node_of(func_def).parent].node = "ClassDef"
    /\ ~node_of(func_def).static

\* the names the function declares: positional, *vararg, **kwarg, keyword-only
declared_names(node) ==
    node.args \o SelectSeq(<<node.vararg, node.kwarg>>, LAMBDA a : a # NoStr) \o node.kwonlyargs

\* C15: an indexed function has all the parameters it declares, in
\* FunctionDef.parameters and in PARAMETER_INDEX, but for the first positional
\* one, which is left out exactly when the function is defined directly in a
\* class and is not a static method
ReceiverFiltering ==
    \A q \in DOMAIN FUNCTION_INDEX :
       LET func_def == FUNCTION_INDEX[q]
           declared == declared_names(node_of(func_def))
           omitted == IsReceiverOmitted(func_def) /\ Len(node_of(func_def).args) > 0
           kept == IF omitted THEN Tail(declared) ELSE declared
       IN /\ [k \in DOMAIN func_def.parameters |-> Definition_name(func_def.parameters[k])] = kept
          /\ \A k \in DOMAIN func_def.parameters :
                /\ func_def.parameters[k].qname \in DOMAIN PARAMETER_INDEX
                /\ PARAMETER_INDEX[func_def.parameters[k].qname] = func_def.parameters[k]
          /\ omitted /\ declared[1] \notin SeqToSet(kept)
                => (q \o "." \o declared[1]) \notin DOMAIN PARAMETER_INDEX

\* a top-level function, a method, a function nested in a method and a static
\* method, all with a first parameter named self, have been indexed
ReceiverFilteringWitness ==
    /\ scenario = "self_filtering"
    /\ {"self_filtering.func", "self_filtering.MyClass.method",
        "self_filtering.MyClass.method.helper", "self_filtering.MyClass.static_method",
        "self_filtering.MyClass.variadic"} \subseteq DOMAIN FUNCTION_INDEX
    /\ "self_filtering.MyClass.method.self" \notin DOMAIN PARAMETER_INDEX
    /\ "self_filtering.MyClass.method.helper.self" \in DOMAIN PARAMETER_INDEX
    /\ "self_filtering.MyClass.static_method.self" \in DOMAIN PARAMETER_INDEX

\* C16: the qname of every registered parameter is the qname of its function,
\* "#" and the name of the parameter, and so is the qname of no class and of
\* no function
ParameterQnameSeparator ==
    /\ \A q \in DOMAIN FUNCTION_INDEX :
          \A k \in DOMAIN FUNCTION_INDEX[q].parameters :
             \E param_name \in SeqToSet(declared_names(node_of(FUNCTION_INDEX[q]))) :
                FUNCTION_INDEX[q].parameters[k].qname = q \o "#" \o param_name
    /\ DOMAIN PARAMETER_INDEX \cap (DOMAIN CLASS_INDEX \cup DOMAIN FUNCTION_INDEX) = {}

\* the path starts with one of the prefixes
UnderPrefix(path, prefixes) == \E i \in DOMAIN prefixes : StartsWith(path, prefixes[i])

\* C17: MODULE_INDEX holds no module whose path starts with an EXCLUDE prefix
\* and with no INCLUDE prefix; and index_project indexes the files that start
\* with an INCLUDE prefix, those under an EXCLUDE prefix too
ExclusionInvariant ==
    /\ \A q \in DOMAIN MODULE_INDEX :
          UnderPrefix(MODULE_INDEX[q].path, ProjectConfig(scenario).EXCLUDE)
            => UnderPrefix(MODULE_INDEX[q].path, ProjectConfig(scenario).INCLUDE)
    /\ (last.op = "index_project" /\ last.exc = "" /\ os_path_isdir(scenario, last.args.target_path))
          => \A path \in DOMAIN Files(scenario) :
                UnderPrefix(path, ProjectConfig(scenario).INCLUDE)
                  => \E q \in DOMAIN MODULE_INDEX : MODULE_INDEX[q].path = path

\* in a project with a file under an EXCLUDE prefix and files under both an
\* EXCLUDE and an INCLUDE prefix the latter are indexed, and a name that main
\* imports from the excluded module has been looked for since, in vain
ExclusionWitness ==
    /\ scenario = "module_exclusion"
    /\ {"main", "excluded.included", "excluded.included.module"} \subseteq DOMAIN MODULE_INDEX
    /\ last.op = "resolve_name"
    /\ last.args.name = "Hidden"
    /\ IsNone(last.ret)

\* GreenTypeAnalyzer(target_path) on the project, with config['FOLLOW_IMPORTS'] set
fresh_analyzer(follow) ==
    [sc |-> scenario, FOLLOW_IMPORTS |-> follow, MODULE_INDEX |-> <<>>, CLASS_INDEX |-> <<>>,
     FUNCTION_INDEX |-> <<>>, PARAMETER_INDEX |-> <<>>, CLASS_ATTRIBUTE_INDEX |-> <<>>,
     broken_modules |-> {}, resolve_name_results |-> <<>>, resolve_bases_results |-> <<>>,
     suggested_types |-> <<>>, indexer_runs |-> 0, parsed |-> <<>>, in_progress |-> {},
     guarded |-> {}]

\* the analyzer after index_project, were it run with FOLLOW_IMPORTS set as
\* given on the same target and the same walk as the last call
project_indexed(follow) ==
    IF follow = FOLLOW_IMPORTS THEN Self
    ELSE index_project(fresh_analyzer(follow), last.args.target_path, last.args.walk).self

\* the suggested_types, by qname, that infer_parameter_types run in the given
\* order on the analyzer gives the parameter
inferred_for(self, q, order) ==
    LET inferred == infer_parameter_types(self, order, 0).self
    IN {c.qname : c \in suggested_types_of(inferred, inferred.PARAMETER_INDEX[q])}

\* the parameters of the project that index_project has indexed with
\* FOLLOW_IMPORTS off, and that have attributes
lazy_parameters ==
    {q \in DOMAIN project_indexed(FALSE).PARAMETER_INDEX :
       /\ PyIn(project_indexed(FALSE).PARAMETER_INDEX[q], project_parameters(project_indexed(FALSE)))
       /\ project_indexed(FALSE).PARAMETER_INDEX[q].attributes # {}}

\* every class that declares one of the attributes once the imports have been
\* followed is, without following them, indexed already or a resolved base
\* of an indexed class that declares one of the attributes
CandidatesWithinReach(attrs) ==
    LET lazy == unite_index(project_indexed(FALSE), attrs, <<>>, {})
        eager == unite_index(project_indexed(TRUE), attrs, <<>>, {})
        reach == lazy \cup UNION {resolve_bases(project_indexed(FALSE), c, 0).ret : c \in lazy}
    IN {c.qname : c \in eager} \subseteq {c.qname : c \in reach}

\* index_project has returned and inference, in whatever order, ends without
\* an exception whether the imports were followed or not
ProjectIndexed ==
    /\ last.op = "index_project"
    /\ last.exc = ""
    /\ \A follow \in BOOLEAN, order \in Orders(scenario) :
          infer_parameter_types(project_indexed(follow), order, 0).exc = ""

\* C18 as stated: after index_project, infer_parameter_types gives each
\* parameter the same suggested_types with FOLLOW_IMPORTS on as with
\* FOLLOW_IMPORTS off
EagerLazyAgree ==
    ProjectIndexed =>
       \A q \in lazy_parameters, o1, o2 \in Orders(scenario) :
          inferred_for(project_indexed(TRUE), q, o1) = inferred_for(project_indexed(FALSE), q, o2)

\* C18: after index_project, infer_parameter_types gives a parameter the same
\* suggested_types with FOLLOW_IMPORTS on as with FOLLOW_IMPORTS off, when
\* the classes that declare the attributes the parameter accesses are within
\* reach of the index built without following imports
EagerLazyAgreeWithinReach ==
    ProjectIndexed =>
       \A q \in lazy_parameters, o1, o2 \in Orders(scenario) :
          CandidatesWithinReach(project_indexed(FALSE).PARAMETER_INDEX[q].attributes)
            => inferred_for(project_indexed(TRUE), q, o1)
                 = inferred_for(project_indexed(FALSE), q, o2)

\* index_project has run, with FOLLOW_IMPORTS off, on a target module alone
\* whose class has its superclass in a module not yet indexed, and inference
\* then suggests that superclass for a parameter
EagerLazyWitness ==
    /\ ProjectIndexed
    /\ ~FOLLOW_IMPORTS
    /\ scenario = "following"
    /\ DOMAIN MODULE_INDEX = {"main"}
    /\ \E q \in lazy_parameters :
          /\ CandidatesWithinReach(PARAMETER_INDEX[q].attributes)
          /\ \A order \in Orders(scenario) : inferred_for(Self, q, order) = {"sibling.SuperClass"}

\* how many whole segments can be both the end of parts1 and the start of parts2
OverlapLengths(parts1, parts2) ==
    {n \in 1..Len(parts2) :
       /\ n <= Len(parts1)
       /\ SubSeq(parts1, Len(parts1) - n + 1, Len(parts1)) = SubSeq(parts2, 1, n)}

\* a followed by the segments of b that come after its first n
FollowedByRest(a, parts2, n) ==
    IF n = Len(parts2) THEN a
    ELSE a \o "." \o Join(SubSeq(parts2, n + 1, Len(parts2)), ".")

\* C19: qname_merge(a, b) is a followed by what is left of b without the
\* longest run of whole segments that ends a and starts b; a + "." + b when
\* there is no such run; the other argument when one is empty
QnameMergeContract ==
    last.op = "qname_merge" =>
       LET a == last.args[1]
           b == last.args[2]
           runs == OverlapLengths(Split(a, "."), Split(b, "."))
       IN last.ret = IF a = "" THEN b
                     ELSE IF b = "" THEN a
                     ELSE IF runs = {} THEN a \o "." \o b
                     ELSE FollowedByRest(a, Split(b, "."),
                                         CHOOSE n \in runs : \A m \in runs : m <= n)

\* qname_merge has merged two names that share a run of two segments
QnameMergeWitness ==
    /\ last.op = "qname_merge"
    /\ last.args = <<"foo.bar.baz", "bar.baz.quux">>
    /\ last.ret = "foo.bar.baz.quux"

\* C20: qname_drop(name, qualifier) is name without its leading
\* qualifier + "." when name starts with that text, and name in every other
\* case: when name is the qualifier, when the qualifier is empty, when the
\* qualifier is only the start of the first segment of name
QnameDropContract ==
    last.op = "qname_drop" =>
       last.ret = IF StartsWith(last.args[1], last.args[2] \o ".")
                  THEN DropChars(last.args[1], Len(last.args[2]) + 1)
                  ELSE last.args[1]

(***************************************************************************)
(* The memoized and guarded resolve_name                                   *)
(***************************************************************************)
\* the key of the resolve_name call that was made last
called_key == resolve_name_key(last.args.name, last.args.module, last.args.type)

\* the last call was a resolve_name that the memo did not answer
Computed == last.op = "resolve_name" /\ called_key \notin last.before.resolve_name_results

\* C21: a call of the memoized function that returns leaves its own result
\* cached under its arguments, and a call that raises leaves no value cached
\* under them, the guard value that a nested call was given included.
GuardedMemoization ==
    Computed =>
       IF last.exc = ""
       THEN /\ called_key \in DOMAIN resolve_name_results
            /\ resolve_name_results[called_key] = last.ret
       ELSE called_key \notin DOMAIN resolve_name_results

key_module(k) == IF k[2][1] = "None" THEN None ELSE MODULE_INDEX[k[2][2]]

\* the key resolved with an empty memo on the indexes as they are
resolved_afresh(k) ==
    resolve_name([Self EXCEPT !.resolve_name_results = <<>>], k[1], key_module(k), k[3], 0)

\* C23: every key that a resolve_name call has memoized as None while it cut
\* a cycle also comes out unresolved when it is resolved with an empty memo
\* on the same indexes.
NoTransientUnresolved ==
    last.op = "resolve_name" /\ last.guarded # {} =>
       \A k \in DOMAIN resolve_name_results \ last.before.resolve_name_results :
          resolve_name_results[k] = None => ~Truthy(resolved_afresh(k).ret)

AddsOnlyReturned(index, index_after, ret) ==
    \A q \in DOMAIN index_after \ DOMAIN index :
       /\ Truthy(ret)
       /\ index_after[q].module # None
       /\ index_after[q].module.qname = ret.qname

\* the step adds nothing but the module it returns and that module's own
\* classes, functions and parameters
AddsRequestedModuleOnly ==
    /\ DOMAIN MODULE_INDEX' \ DOMAIN MODULE_INDEX \subseteq
           (IF Truthy(last'.ret) THEN {last'.ret.qname} ELSE {})
    /\ AddsOnlyReturned(CLASS_INDEX, CLASS_INDEX', last'.ret)
    /\ AddsOnlyReturned(FUNCTION_INDEX, FUNCTION_INDEX', last'.ret)
    /\ AddsOnlyReturned(PARAMETER_INDEX, PARAMETER_INDEX', last'.ret)

\* C25 as stated: every index_module call adds only the requested module
\* and its own definitions to the indexes.
LoadingNotTransitive ==
    [][last'.op = "index_module" => AddsRequestedModuleOnly]_vars

\* C25 as amended: with FOLLOW_IMPORTS off, an index_module call adds only
\* the requested module and its own definitions to the indexes.
LoadingNotTransitiveUnlessFollowing ==
    [][last'.op = "index_module" /\ ~FOLLOW_IMPORTS => AddsRequestedModuleOnly]_vars

\* a module that imports another one was indexed, with its class, and the
\* module it imports was not
LoadingNotTransitiveWitness ==
    /\ last.op = "index_module"
    /\ ~FOLLOW_IMPORTS
    /\ Truthy(last.ret)
    /\ last.ret.qname \notin last.before.MODULE_INDEX
    /\ \E q \in DOMAIN CLASS_INDEX : CLASS_INDEX[q].module.qname = last.ret.qname
    /\ Len(last.ret.imports) > 0
    /\ \A i \in DOMAIN last.ret.imports :
          qname_tail(last.ret.imports[i].imported_name) \notin DOMAIN MODULE_INDEX

(***************************************************************************)
(* The order of the lookups in resolve_name                                *)
(***************************************************************************)
\* the qualified name that the import gives the name: the name in the
\* module of a star import, the imported name in place of the local one
\* otherwise, NoStr for an import that does not import the name
denoted_qname(imp, name) ==
    IF imp.star_import THEN imp.imported_name \o "." \o name ELSE imported_qname(imp, name)

\* no import of the module denotes an indexed class that is not the one
\* returned while an earlier import denotes an indexed class as well
EarlierImportWins(name, module, ret, index_after) ==
    \A i, j \in DOMAIN module.imports :
       /\ i < j
       /\ denoted_qname(module.imports[i], name) \in DOMAIN index_after
       /\ denoted_qname(module.imports[j], name) \in DOMAIN index_after
       => /\ Truthy(ret)
          /\ ret.qname = denoted_qname(module.imports[i], name)

\* what the step returns is the first of: the class indexed under the name,
\* the builtin of that name, the class of that name in the module, and the
\* class that the earliest import leads to
FirstMatchWins(name, module, ret) ==
    IF name \in DOMAIN CLASS_INDEX THEN ret = CLASS_INDEX[name]
    ELSE IF BUILTINS_NAME \o "." \o name \in DOMAIN CLASS_INDEX
    THEN ret = CLASS_INDEX[BUILTINS_NAME \o "." \o name]
    ELSE IF module.qname \o "." \o name \in DOMAIN CLASS_INDEX
    THEN ret = CLASS_INDEX[module.qname \o "." \o name]
    ELSE EarlierImportWins(name, module, ret, CLASS_INDEX')

\* C26: a resolve_name call that the memo does not answer returns the first
\* match of the lookups in their order: full qname, builtin, name in the
\* module, imports in declaration order.
ResolutionOrder ==
    [][last'.op = "resolve_name" /\ called_key' \notin DOMAIN resolve_name_results
         /\ last'.exc = ""
       => FirstMatchWins(last'.args.name, last'.args.module, last'.ret)]_vars

\* the builtin was returned for a name that the referencing module defines too
ResolutionOrderBuiltinWitness ==
    /\ Computed
    /\ Truthy(last.ret)
    /\ last.ret.qname = BUILTINS_NAME \o "." \o last.args.name
    /\ last.args.module.qname \o "." \o last.args.name \in last.before.CLASS_INDEX

(***************************************************************************)
(* Completeness of suggest_classes                                         *)
(***************************************************************************)
\* the bases that _resolve_bases gives for the class on the analyzer as it
\* is, none when it raises
resolved_bases(class_def) ==
    LET r == resolve_bases(Self, class_def, 0) IN IF r.exc = "" THEN r.ret ELSE {}

\* the attributes of the class and of its resolved bases cover attrs
Covers(class_def, attrs) ==
    attrs \subseteq available_attrs(class_def, resolved_bases(class_def))

\* C27: suggest_classes, called with at least one attribute, returns every
\* indexed class whose own and inherited attributes cover the attributes and
\* none of whose resolved bases covers them.
SuggestionComplete ==
    last.op = "suggest_classes" /\ last.exc = "" /\ last.args.accessed_attrs # {} =>
       \A q \in DOMAIN CLASS_INDEX :
          /\ Covers(CLASS_INDEX[q], last.args.accessed_attrs)
          /\ \A base \in resolved_bases(CLASS_INDEX[q]) :
                ~Covers(base, last.args.accessed_attrs)
          => PyIn(CLASS_INDEX[q], last.ret)

(***************************************************************************)
(* C28: the results of resolve_name and _resolve_bases on an analyzer      *)
(* whose indexes were emptied and filled anew.                             *)
(***************************************************************************)
\* the definition is registered under its qname in the index of its kind
InCurrentIndexes(d) ==
    \/ d.kind = "module" /\ d.qname \in DOMAIN MODULE_INDEX
    \/ d.kind = "class" /\ d.qname \in DOMAIN CLASS_INDEX
    \/ d.kind = "function" /\ d.qname \in DOMAIN FUNCTION_INDEX

\* C28: on an analyzer used again after invalidate_indexes(), a definition
\* that resolve_name returns, and every definition in the set that
\* _resolve_bases returns, is registered in the indexes as they are when the
\* call returns; a result memoized before the indexes were emptied is not
\* returned.
ResetComplete ==
    /\ last.op = "resolve_name" /\ last.exc = "" /\ Truthy(last.ret)
          => InCurrentIndexes(last.ret)
    /\ last.op = "_resolve_bases" /\ last.exc = ""
          => \A base \in last.ret : InCurrentIndexes(base)

(***************************************************************************)
(* C29: what a call of suggest_classes does to the indexes.                *)
(***************************************************************************)
\* the classes listed under the attribute
ListedUnder(index, attr) == IF attr \in DOMAIN index THEN index[attr] ELSE {}

\* the index holds the same definitions under the same qnames
SameDefinitions(index, index_after) ==
    DOMAIN index_after = DOMAIN index /\ \A q \in DOMAIN index : index_after[q] = index[q]

\* every entry of the index is still there, unchanged
KeepsDefinitions(index, index_after) ==
    DOMAIN index \subseteq DOMAIN index_after /\ \A q \in DOMAIN index : index_after[q] = index[q]

\* the step is a call of suggest_classes
SuggestClassesStep == SuggestClasses /\ last'.op = "suggest_classes"

\* C29: a call of suggest_classes leaves MODULE_INDEX, CLASS_INDEX,
\* FUNCTION_INDEX and PARAMETER_INDEX as they are and changes the set of
\* classes listed under no attribute of CLASS_ATTRIBUTE_INDEX
SuggestReadOnly ==
    [][SuggestClassesStep =>
          /\ SameDefinitions(MODULE_INDEX, MODULE_INDEX')
          /\ SameDefinitions(CLASS_INDEX, CLASS_INDEX')
          /\ SameDefinitions(FUNCTION_INDEX, FUNCTION_INDEX')
          /\ SameDefinitions(PARAMETER_INDEX, PARAMETER_INDEX')
          /\ \A attr \in DOMAIN CLASS_ATTRIBUTE_INDEX \cup DOMAIN CLASS_ATTRIBUTE_INDEX' :
                ListedUnder(CLASS_ATTRIBUTE_INDEX', attr) = ListedUnder(CLASS_ATTRIBUTE_INDEX, attr)
      ]_vars

\* C29, as the code has it: a call of suggest_classes during which no module
\* is indexed leaves the four indexes and the classes listed under every
\* attribute as they are; a call during which the resolution of a base class
\* indexes a module only adds to them, no entry is removed or replaced and no
\* class leaves an attribute
SuggestOnlyLoads ==
    [][SuggestClassesStep =>
          /\ KeepsDefinitions(MODULE_INDEX, MODULE_INDEX')
          /\ KeepsDefinitions(CLASS_INDEX, CLASS_INDEX')
          /\ KeepsDefinitions(FUNCTION_INDEX, FUNCTION_INDEX')
          /\ KeepsDefinitions(PARAMETER_INDEX, PARAMETER_INDEX')
          /\ \A attr \in DOMAIN CLASS_ATTRIBUTE_INDEX :
                ListedUnder(CLASS_ATTRIBUTE_INDEX, attr) \subseteq ListedUnder(CLASS_ATTRIBUTE_INDEX', attr)
          /\ indexer_runs' = indexer_runs
                => /\ SameDefinitions(MODULE_INDEX, MODULE_INDEX')
                   /\ SameDefinitions(CLASS_INDEX, CLASS_INDEX')
                   /\ SameDefinitions(FUNCTION_INDEX, FUNCTION_INDEX')
                   /\ SameDefinitions(PARAMETER_INDEX, PARAMETER_INDEX')
                   /\ \A attr \in DOMAIN CLASS_ATTRIBUTE_INDEX \cup DOMAIN CLASS_ATTRIBUTE_INDEX' :
                         ListedUnder(CLASS_ATTRIBUTE_INDEX', attr)
                            = ListedUnder(CLASS_ATTRIBUTE_INDEX, attr)
      ]_vars

\* a call of suggest_classes during which a module was indexed, and its
\* classes registered
SuggestOnlyLoadsWitness ==
    /\ last.op = "suggest_classes" /\ last.exc = ""
    /\ last.before.MODULE_INDEX # DOMAIN MODULE_INDEX
    /\ last.before.CLASS_INDEX # DOMAIN CLASS_INDEX
    /\ last.before.MODULE_INDEX # {}

(***************************************************************************)
(* C30: index_module with FOLLOW_IMPORTS on, called for a module whose     *)
(* imports lead back to it.                                                *)
(***************************************************************************)
\* the names index_module is called with when the imports of the file are followed
FollowedNames(path) ==
    LET got == collect_imports(scenario, path, Files(scenario)[path].imports, 1, <<>>)
    IN IF Files(scenario)[path].syntax_error \/ got.exc # "" THEN {}
       ELSE UNION {{got.imports[i].imported_name}
                     \cup (IF got.imports[i].import_from /\ ~got.imports[i].star_import
                           THEN {qname_tail(got.imports[i].imported_name)} ELSE {})
                   : i \in DOMAIN got.imports}

\* the files of the modules that the file imports
ImportedPaths(path) ==
    {module_name_to_path(scenario, name).value :
       name \in {n \in FollowedNames(path) : module_name_to_path(scenario, n).ok}}

RECURSIVE ImportClosure(_)
\* the files reached from the given ones by following imports
ImportClosure(paths) ==
    IF UNION {ImportedPaths(p) : p \in paths} \subseteq paths THEN paths
    ELSE ImportClosure(paths \cup UNION {ImportedPaths(p) : p \in paths})

\* the files that the file imports, directly or through other files
ImportsTransitively(path) == ImportClosure(ImportedPaths(path))

\* the files on an import cycle through the file: none if there is no such cycle
CycleOf(path) ==
    {p \in ImportsTransitively(path) : path \in ImportsTransitively(p)}

\* the file was parsed once and one module of this file is registered
IndexedOnce(path) ==
    /\ path \in DOMAIN parsed /\ parsed[path] = 1
    /\ Cardinality({q \in DOMAIN MODULE_INDEX : MODULE_INDEX[q].path = path}) = 1

\* C30: with FOLLOW_IMPORTS on, a call of index_module for a module on an
\* import cycle (a module that imports itself included) does not run into
\* the recursion limit, and when it ends every module of the cycle has been
\* parsed once and is registered once in MODULE_INDEX
ImportCyclesTerminate ==
    (/\ last.op = "index_module" /\ FOLLOW_IMPORTS
     /\ called_path(last.args) # NoStr
     /\ CycleOf(called_path(last.args)) # {})
        => /\ last.exc # "RecursionError"
           /\ \A p \in CycleOf(called_path(last.args)) : IndexedOnce(p)

\* index_module was called, with FOLLOW_IMPORTS on and nothing indexed, for a
\* module on a cycle of two modules, and returned it
ImportCyclesWitness ==
    /\ last.op = "index_module" /\ FOLLOW_IMPORTS /\ last.exc = "" /\ Truthy(last.ret)
    /\ last.before.MODULE_INDEX = {}
    /\ called_path(last.args) # NoStr
    /\ Cardinality(CycleOf(called_path(last.args))) > 1
    /\ \A p \in CycleOf(called_path(last.args)) : IndexedOnce(p)

====
